---- MODULE Spec2Model ----
(***************************************************************************)
(* Verification model of @permaweb/ao-core-libs: the signing wrappers      *)
(* (toDataItemSigner, toHttpSigner), the signature base builder            *)
(* (toSigBaseArgs), the HyperBEAM encoder (hbEncodeValue, hbEncodeLift,    *)
(* toHBRequest), the request pipeline (request) and the auxiliary caches   *)
(* (HashCache, CryptoRateLimiter).                                         *)
(*                                                                         *)
(* JavaScript values that may be undefined or null are modelled as records *)
(* so that they can be compared with every other record value.            *)
(***************************************************************************)
EXTENDS Integers, Sequences, FiniteSets, TLC

VARIABLES
    \* ---- one call of a signing wrapper (toDataItemSigner / toHttpSigner)
    wrapper,        \* which wrapper the call went to: "none", "ans104", "httpsig"
    pc,             \* "idle", "signer" (awaiting the signer), "done"
    item,           \* the DataItemFields argument of toDataItemSigner
    sigInput,       \* the {headers, includePath} given to toSigBaseArgs
    sigArgs,        \* the {request, fields} argument of toHttpSigner
    createCalled,   \* the closure flag createCalled
    createCount,    \* how many times the signer has invoked create()
    unsignedBytes,  \* the closure variable unsignedBytes (Null before create)
    httpSig,        \* the closure object httpSig {signatureInput, signatureBase}
    payload,        \* what the last create() returned to the signer
    res,            \* what the signer resolved with
    isValid,        \* result of the local verify(), NotRun when it did not run
    out,            \* how the call ended
    SIG_CONFIG,     \* publicKey of the process-wide SIG_CONFIG[1] entry
    \* ---- CryptoRateLimiter
    now,            \* Date.now()
    operations,     \* the Map identifier -> {count, windowStart}
    lastCheck,      \* the last checkLimit call and its outcome
    window,         \* history: per identifier the window the spec speaks of
    \* ---- hbEncodeLift / toHBRequest, concurrent calls sharing the hash cache
    hbObj,          \* per call: the Field Map it was given
    hbPc,           \* position of each call
    flattened,      \* each call's flattened object (hbEncodeLift's result)
    pending,        \* per call: classification callbacks not yet completed
    headerKeys,     \* per call: headerKeys
    bodyKeys,       \* per call: bodyKeys
    hbBuilt,        \* per call: the headers and body built so far
    hashing,        \* per call: the sha256 call in flight {data, cached}
    hbOut,          \* per call: how the call ended
    hashCache,      \* the process-wide HashCache (keys in insertion order)
    \* ---- request()
    deps,           \* the resolved dependencies {signer, url}
    args,           \* the request arguments
    reqPc,          \* position of the request() call
    unsignedRequest,\* toHBRequest's result inside request()
    fetched,        \* what was handed to fetch
    reqOut,         \* how request() ended
    \* ---- toANS104Request called on its own
    itemFields,     \* the fields argument
    ans104Request,  \* how the call ended
    \* ---- one call of a signer built by createSigner
    signerSrc,      \* what the signer was built from: "none", "jwk", "wallet"
    signerKey,      \* the key the JWK holds / the wallet has active
    signerKind,     \* the format selector given to the signer
    signerFn,       \* the function the selector was dispatched to
    signerPc,       \* the await the signer function is suspended at
    signerLog,      \* the calls made to create, the wallet and the primitives
    createArg,      \* the argument of create()
    signerOut,      \* how the call ended
    \* ---- init(deps)
    initDeps,       \* the dependencies init was last called with
    initOut,        \* how that call ended
    signerFrom,     \* where resolvedDeps.signer came from: "none", "supplied", "jwk"
    created,        \* whether that call built a signer with createSigner(deps.jwk)
    \* ---- sha256() calls sharing the HashCache
    shaPc,          \* per caller: "idle", or "digest" while crypto.subtle.digest runs
    shaData,        \* per caller: the data of its last call
    shaOut,         \* per caller: what its last call returned
    recent,         \* history: the keys in the order they were last inserted or read
    lastOp,         \* history: the last get or set on the cache
    \* ---- toDataItemSigner calls in flight together
    calls           \* per call: its signer's key and the closure of the call

signVars == <<wrapper, pc, item, sigInput, sigArgs, createCalled, createCount, unsignedBytes,
              httpSig, payload, res, isValid, out, SIG_CONFIG>>
rateVars == <<now, operations, lastCheck, window>>
hbVars   == <<hbObj, hbPc, flattened, pending, headerKeys, bodyKeys, hbBuilt, hashing, hbOut,
             hashCache>>
reqVars  == <<deps, args, reqPc, unsignedRequest, fetched, reqOut>>
itemVars == <<itemFields, ans104Request>>
dispVars == <<signerSrc, signerKey, signerKind, signerFn, signerPc, signerLog, createArg,
              signerOut>>
initVars == <<initDeps, initOut, signerFrom, created>>
shaVars  == <<shaPc, shaData, shaOut, recent, lastOp>>
pairVars == <<calls>>
vars     == <<signVars, rateVars, hbVars, reqVars, itemVars, dispVars, initVars, shaVars,
             pairVars>>

----------------------------------------------------------------------------
(* JavaScript undefined / null, and the outcomes of a call *)

Undefined == [undefined |-> TRUE]
Null      == [null |-> TRUE]
NotRun    == [notRun |-> TRUE]
Truthy(v) == v # Undefined /\ v # Null

Pending       == [kind |-> "pending"]
Return(v)     == [kind |-> "return", value |-> v]
Throw(n, c)   == [kind |-> "throw", name |-> n, code |-> c]
NoCode        == "none"

(* ErrorCode enumeration *)
ErrorCode ==
    { "VALIDATION_MISSING_DEPENDENCIES", "VALIDATION_MISSING_JWK_OR_SIGNER",
      "VALIDATION_MISSING_PATH", "VALIDATION_INVALID_FORMAT", "VALIDATION_MISSING_FIELDS",
      "CRYPTO_SIGNER_TYPE_UNKNOWN", "CRYPTO_SIGNATURE_METADATA_NOT_FOUND",
      "CRYPTO_CREATE_NOT_INVOKED", "CRYPTO_MISSING_SIGNATURE", "CRYPTO_INVALID_SIGNATURE",
      "CRYPTO_RATE_LIMIT_EXCEEDED", "REQUEST_PREPARATION_FAILED",
      "REQUEST_FORMATTING_FAILED", "REQUEST_HTTP_FAILED", "ENCODING_UNSUPPORTED_VALUE",
      "ENCODING_UNSUPPORTED_INPUT_TYPE", "ENCODING_NO_DECODER" }

Min(a, b) == IF a < b THEN a ELSE b

----------------------------------------------------------------------------
(* Binary item (ANS-104): layout, deep hash, signature, local verification *)

Keys      == {"k1", "k2"}          \* public keys (owner)
DataSet   == {"d1", "d2"}          \* data payloads
DataLen   == [d \in DataSet |-> IF d = "d1" THEN 5 ELSE 3000]
TagSets   == {<<>>, <<[name |-> "Foo", value |-> "Bar"]>>}
Items     == [data : DataSet, tags : TagSets, target : {""}, anchor : {""}]

sigLength   == 512    \* SIG_CONFIG[1].sigLength, copied to signatureLength
pubLength   == 512    \* SIG_CONFIG[1].pubLength, copied to ownerLength
SigOffset   == 2      \* signedBytes.set(rawSig, 2)
MinSigBytes == 64     \* validateSignatureData
MaxSigBytes == 2048   \* validateSignatureData

(* Signature bytes a signer can hand back: a value and a byte length *)
NoSig        == [key |-> "none", msg |-> Null]
Sign(k, m)   == [key |-> k, msg |-> m]          \* SIGN(privateKey of k, m)
SigLens      == {63, 256, 512, 513, 2049}
RawSig(v, n) == [val |-> v, len |-> n]

(* createData(data, signerMeta, opts).getRaw(): the unsigned buffer. The
   signature region holds `written` bytes of `val` (zero-filled: 0 bytes of
   NoSig); `clobbered` names the regions behind the signature region that a
   write has overrun. *)
TagsByteLength(tags) == 16 + 24 * Len(tags)
FieldByteLength(s)   == 1 + (IF s = "" THEN 0 ELSE 32)
createDataItemBytes(data, signer, opts) ==
    [ sigType    |-> signer.type,
      sig        |-> [val |-> NoSig, written |-> 0],
      owner      |-> signer.publicKey,
      target     |-> opts.target,
      anchor     |-> opts.anchor,
      tags       |-> opts.tags,
      data       |-> data,
      clobbered  |-> {},
      byteLength |-> SigOffset + sigLength + pubLength + FieldByteLength(opts.target)
                       + FieldByteLength(opts.anchor) + TagsByteLength(opts.tags)
                       + DataLen[data] ]

(* DataItem.getSignatureData(): the deep hash over every field but the
   signature region *)
getSignatureData(b) ==
    [ sigType |-> b.sigType, owner |-> b.owner, target |-> b.target,
      anchor |-> b.anchor, tags |-> b.tags, data |-> b.data, intact |-> b.clobbered = {} ]

(* DataItem.verify(): VERIFY(bundleBytes) *)
verify(b) ==
    /\ b.clobbered = {}
    /\ b.sig.written = sigLength
    /\ b.sig.val = Sign(b.owner, getSignatureData(b))

(* Uint8Array.prototype.set(rawSig, 2) on the buffer; the caller has checked
   that it fits. Bytes [2, 2 + len) are overwritten. *)
OwnerOffset == SigOffset + sigLength
RestOffset  == OwnerOffset + pubLength
SpliceFits(b, rawSig) == SigOffset + rawSig.len <= b.byteLength
Splice(b, rawSig) ==
    [ b EXCEPT
        !.sig = [val |-> rawSig.val, written |-> Min(rawSig.len, sigLength)],
        !.clobbered = (IF SigOffset + rawSig.len > OwnerOffset THEN {"owner"} ELSE {})
                      \cup (IF SigOffset + rawSig.len > RestOffset THEN {"rest"} ELSE {}) ]

(* validateSignatureData(signature, context) for a Buffer: the error code it
   throws, or "ok" *)
validateSignatureData(rawSig) ==
    IF rawSig.len < MinSigBytes \/ rawSig.len > MaxSigBytes
    THEN "CRYPTO_INVALID_SIGNATURE"
    ELSE "ok"

(* The DataItem ID = base64url(SHA-256(rawSig)) *)
ItemId(rawSig) == [idOf |-> rawSig]

(* What the signer may pass to create() *)
Injected == [publicKey : Keys, passthrough : BOOLEAN]

(* toDataItemSigner: the create() callback. Returns the new closure state and
   the value handed back to the signer. *)
createDataItemMutant(it, injected) ==
    LET bytes == createDataItemBytes(it.data,
                     [type |-> 1, publicKey |-> injected.publicKey],
                     [target |-> it.target, tags |-> it.tags, anchor |-> it.anchor])
    IN [ unsignedBytes |-> bytes, changed |-> TRUE,
         returned |-> getSignatureData(bytes) ]
createDataItem(it, injected) ==
    IF injected.passthrough
    THEN [ unsignedBytes |-> Undefined, changed |-> FALSE,
           returned |-> [data |-> it.data, tags |-> it.tags,
                         target |-> it.target, anchor |-> it.anchor] ]
    ELSE LET bytes == createDataItemBytes(it.data,
                          [type |-> 1, publicKey |-> injected.publicKey],
                          [target |-> it.target, tags |-> it.tags, anchor |-> it.anchor])
         IN [ unsignedBytes |-> bytes, changed |-> TRUE,
              returned |-> getSignatureData(bytes) ]

(* toDataItemSigner: everything after `await signer(create, ANS_104)` *)
CreateNotInvokedDataItemMutant(r) == Throw("Error", NoCode)
CreateNotInvokedDataItem(r) ==
    Throw("CryptographicError", "CRYPTO_CREATE_NOT_INVOKED")

VerifyGateMutant(signedBytes) == TRUE
VerifyGate(signedBytes) == verify(signedBytes)

After(o, v, b) == [out |-> o, isValid |-> v, bytes |-> b]
toDataItemSignerAfter(called, bytes, r) ==
    IF ~called THEN After(CreateNotInvokedDataItem(r), NotRun, bytes)
    ELSE IF r # Null /\ r # Undefined /\ Truthy(r.id) /\ Truthy(r.raw)
    THEN After(Return(r), NotRun, bytes)
    ELSE IF r = Null \/ r = Undefined
    THEN After(Throw("TypeError", NoCode), NotRun, bytes)
    ELSE IF ~Truthy(r.signature)
    THEN After(Throw("CryptographicError", "CRYPTO_MISSING_SIGNATURE"), NotRun, bytes)
    ELSE LET rawSig == r.signature IN
         IF bytes = Null
         THEN After(Throw("TypeError", NoCode), NotRun, bytes)
         ELSE IF ~SpliceFits(bytes, rawSig)
         THEN After(Throw("RangeError", NoCode), NotRun, bytes)
         ELSE LET signedBytes == Splice(bytes, rawSig) IN
              IF validateSignatureData(rawSig) # "ok"
              THEN After(Throw("CryptographicError", validateSignatureData(rawSig)),
                         NotRun, signedBytes)
              ELSE IF ~VerifyGate(signedBytes)
              THEN After(Throw("CryptographicError", "CRYPTO_INVALID_SIGNATURE"),
                         [ran |-> verify(signedBytes)], signedBytes)
              ELSE After(Return([ id |-> ItemId(rawSig), raw |-> signedBytes,
                                  signature |-> Undefined, address |-> Undefined ]),
                         [ran |-> verify(signedBytes)], signedBytes)

----------------------------------------------------------------------------
(* Strings: their code units, for ordering and case *)

(* The printable ASCII characters: codes 32..95 and 97..126 *)
PrintableLow  == " !\"#$%&'()*+,-./0123456789:;<=>?@ABCDEFGHIJKLMNOPQRSTUVWXYZ[\\]^_"
PrintableHigh == "abcdefghijklmnopqrstuvwxyz{|}~"
SpaceCode == 32
SmallACode == 97
CharAt(s, i) == SubSeq(s, i, i)
IndexIn(s, c) == CHOOSE i \in 1..Len(s) : CharAt(s, i) = c
(* String.prototype.charCodeAt for one character *)
charCode(c) ==
    IF c = "\n" THEN 10
    ELSE IF c = "\r" THEN 13
    ELSE IF \E i \in 1..Len(PrintableLow) : CharAt(PrintableLow, i) = c
         THEN (SpaceCode - 1) + IndexIn(PrintableLow, c)
    ELSE (SmallACode - 1) + IndexIn(PrintableHigh, c)
fromCharCode(code) ==
    IF code < SmallACode - 1 THEN CharAt(PrintableLow, code - (SpaceCode - 1))
    ELSE CharAt(PrintableHigh, code - (SmallACode - 1))
Ascii(s) == [i \in 1..Len(s) |-> charCode(CharAt(s, i))]

(* String.prototype.toLowerCase *)
LowerCode(c) == IF c >= 65 /\ c <= 90 THEN c + 32 ELSE c
LowerChar(c) == IF c \in {"\n", "\r"} THEN c ELSE fromCharCode(LowerCode(charCode(c)))
RECURSIVE toLowerCase(_)
toLowerCase(s) == IF s = "" THEN "" ELSE LowerChar(CharAt(s, 1)) \o toLowerCase(SubSeq(s, 2, Len(s)))

(* String.prototype.includes for a one-character needle *)
includes(s, c) == \E i \in 1..Len(s) : CharAt(s, i) = c

(* Comparison of two strings by UTF-16 code units (the default of
   Array.prototype.sort, and the order of Headers iteration) *)
RECURSIVE CodeLess(_, _)
CodeLess(x, y) ==
    IF x = <<>> THEN y # <<>>
    ELSE IF y = <<>> THEN FALSE
    ELSE IF Head(x) # Head(y) THEN Head(x) < Head(y)
    ELSE CodeLess(Tail(x), Tail(y))
StrLess(a, b) == CodeLess(Ascii(a), Ascii(b))

(* Array.prototype.sort() with the default comparison, as an insertion sort *)
RECURSIVE Insert(_, _)
Insert(x, sorted) ==
    IF sorted = <<>> THEN <<x>>
    ELSE IF StrLess(x, Head(sorted)) THEN <<x>> \o sorted
    ELSE <<Head(sorted)>> \o Insert(x, Tail(sorted))
RECURSIVE sort(_)
sort(seq) == IF seq = <<>> THEN <<>> ELSE Insert(Head(seq), sort(Tail(seq)))

Range(seq) == {seq[i] : i \in DOMAIN seq}
RECURSIVE SetToSortedSeq(_)
SetToSortedSeq(S) ==
    IF S = {} THEN <<>>
    ELSE LET m == CHOOSE x \in S : \A y \in S \ {x} : StrLess(x, y)
         IN <<m>> \o SetToSortedSeq(S \ {m})

(* new Headers(init): names lower-cased; iteration is sorted by name *)
Headers(init) == [n \in {toLowerCase(k) : k \in DOMAIN init} |->
                    init[CHOOSE k \in DOMAIN init : toLowerCase(k) = n]]
HeadersEntries(h) == SetToSortedSeq(DOMAIN h)

(* Object.keys(record): integer-like keys first, then insertion order *)
IsIndexKey(n) == n = "0"
ObjectKeys(insertion) ==
    SelectSeq(insertion, IsIndexKey) \o SelectSeq(insertion, LAMBDA n : ~IsIndexKey(n))

----------------------------------------------------------------------------
(* Signature base builder (format B) *)

HeaderNames == {"-x", "0", "B", "_y", "a"}
HeaderValue(n) == [v |-> n]
HeaderInits == {[n \in S |-> HeaderValue(n)] : S \in SUBSET HeaderNames}
Url    == "https://forward.computer/x"
Method == "POST"

(* toSigBaseArgs({url, method, headers, includePath}) *)
SignedFieldsMutant(keys, includePath) ==
    keys \o (IF includePath THEN <<"@path">> ELSE <<>>)
SignedFields(keys, includePath) ==
    sort(keys \o (IF includePath THEN <<"@path">> ELSE <<>>))
toSigBaseArgs(url, method, headers, includePath) ==
    LET hdr       == Headers(headers)
        hdrRecord == hdr
        keys      == ObjectKeys(HeadersEntries(hdr))
    IN [ fields  |-> SignedFields(keys, includePath),
         request |-> [url |-> url, method |-> method, headers |-> hdrRecord] ]

(* httpbis.createSignatureBase({fields}, request): one component per field,
   in the order of `fields` *)
createSignatureBase(fields, request) ==
    [i \in 1..Len(fields) |->
        [ name  |-> fields[i],
          value |-> IF fields[i] = "@path" THEN [v |-> "/x"]
                    ELSE request.headers[fields[i]] ]]

(* toHttpSigner: the create() callback *)
SignatureParamsName == "@signature-params"
createHttp(args0, injected) ==
    LET signingParameters == [alg |-> "rsa-pss-sha512", keyid |-> injected.publicKey]
        signatureBaseList == createSignatureBase(args0.fields, args0.request)
        signatureInput    == [ components |-> [i \in 1..Len(signatureBaseList) |->
                                                   signatureBaseList[i].name],
                               params |-> signingParameters ]
        base == Append(signatureBaseList,
                       [name |-> SignatureParamsName, value |-> signatureInput])
    IN [ httpSig  |-> [signatureInput |-> signatureInput, signatureBase |-> base],
         returned |-> base ]

(* Addresses: the base64url-decoded bytes of an address *)
Addresses == { [bytes |-> <<1, 2, 3, 4, 5, 6, 7, 8, 9, 10>>],
               [bytes |-> <<11, 2, 3, 4, 5, 6, 7, 8, 12, 10>>] }
HexDigit == <<"0", "1", "2", "3", "4", "5", "6", "7", "8", "9", "a", "b", "c", "d", "e", "f">>
ToHex(byte) == <<HexDigit[(byte \div 16) + 1], HexDigit[(byte % 16) + 1]>>
RECURSIVE HexString(_)
HexString(bytes) == IF bytes = <<>> THEN <<>> ELSE ToHex(Head(bytes)) \o HexString(Tail(bytes))

(* httpSigName(address): decoded.subarray(1, 9), hex-encoded *)
httpSigNameMutant(address) ==
    [prefix |-> "http-sig-", hex |-> HexString(SubSeq(address.bytes, 1, 8))]
httpSigName(address) ==
    [prefix |-> "http-sig-", hex |-> HexString(SubSeq(address.bytes, 2, 9))]

(* httpbis.augmentHeaders(headers, signature, signatureInput, name) *)
augmentHeaders(headers, sigBuffer, signatureInput, name) ==
    [n \in DOMAIN headers \cup {"Signature", "Signature-Input"} |->
        IF n = "Signature" THEN [name |-> name, sig |-> sigBuffer]
        ELSE IF n = "Signature-Input" THEN [name |-> name, input |-> signatureInput]
        ELSE headers[n]]

(* toHttpSigner: everything after `await signer(create, HTTP_SIG)` *)
CreateNotInvokedHttp(r) == Throw("Error", NoCode)
toHttpSignerAfter(called, sig0, args0, r) ==
    IF r = Null \/ r = Undefined THEN Throw("TypeError", NoCode)
    ELSE IF ~called THEN CreateNotInvokedHttp(r)
    ELSE IF ~Truthy(r.signature) THEN Throw("Error", NoCode)
    ELSE IF ~Truthy(r.address) THEN Throw("TypeError", NoCode)
    ELSE Return([ url     |-> args0.request.url,
                  method  |-> args0.request.method,
                  headers |-> augmentHeaders(args0.request.headers, r.signature,
                                             sig0.signatureInput, httpSigName(r.address)) ])

----------------------------------------------------------------------------
(* The signing wrappers as a state machine: one call at a time, the signer
   being any implementation of the Signer Capability *)

MaxCreate == 2   \* create() invocations by the signer within one call

NoItem    == [none |-> TRUE]
NoArgs    == [none |-> TRUE]
NoHttpSig == [signatureInput |-> Undefined, signatureBase |-> Undefined]

WalletResult == [ id |-> [wallet |-> "id"], raw |-> [wallet |-> "raw"],
                  signature |-> Undefined, address |-> Undefined ]
EmptyResult  == [ id |-> Undefined, raw |-> Undefined,
                  signature |-> Undefined, address |-> Undefined ]
SignatureResults(pl) ==
    { [ id |-> Undefined, raw |-> Undefined, signature |-> RawSig(v, n), address |-> a ] :
        v \in {Sign(k, pl) : k \in Keys} \cup {NoSig}, n \in SigLens, a \in Addresses }
SignerResults(pl) ==
    {Null, EmptyResult, WalletResult}
    \cup SignatureResults(pl)
    \cup { [EmptyResult EXCEPT !.address = a] : a \in Addresses }
    \cup { [EmptyResult EXCEPT !.signature = RawSig(Sign("k1", pl), sigLength)] }

SignIdle ==
    /\ wrapper = "none" /\ pc = "idle" /\ item = NoItem
    /\ sigInput = NoArgs /\ sigArgs = NoArgs
    /\ createCalled = FALSE /\ createCount = 0 /\ unsignedBytes = Null
    /\ httpSig = NoHttpSig /\ payload = Undefined /\ res = Undefined
    /\ isValid = NotRun /\ out = Pending

(* toDataItemSigner(signer)({data, tags, target, anchor}) up to `await signer` *)
CallDataItemSigner(it) ==
    /\ pc = "idle"
    /\ wrapper' = "ans104" /\ item' = it /\ pc' = "signer"
    /\ UNCHANGED <<sigInput, sigArgs, createCalled, createCount, unsignedBytes, httpSig, payload,
                   res, isValid, out, SIG_CONFIG>>

(* toSigBaseArgs, then toHttpSigner(signer)({request, fields}) up to `await signer` *)
CallHttpSigner(headers, includePath) ==
    /\ pc = "idle"
    /\ wrapper' = "httpsig" /\ pc' = "signer"
    /\ sigInput' = [headers |-> headers, includePath |-> includePath]
    /\ sigArgs' = toSigBaseArgs(Url, Method, headers, includePath)
    /\ UNCHANGED <<item, createCalled, createCount, unsignedBytes, httpSig, payload,
                   res, isValid, out, SIG_CONFIG>>

(* The signer invokes create(injected) *)
SignerInvokesCreate(injected) ==
    /\ pc = "signer" /\ createCount < MaxCreate
    /\ createCalled' = TRUE
    /\ createCount' = createCount + 1
    /\ IF wrapper = "ans104"
       THEN LET c == createDataItem(item, injected) IN
            /\ unsignedBytes' = IF c.changed THEN c.unsignedBytes ELSE unsignedBytes
            /\ SIG_CONFIG' = IF c.changed THEN injected.publicKey ELSE SIG_CONFIG
            /\ payload' = c.returned
            /\ UNCHANGED httpSig
       ELSE LET c == createHttp(sigArgs, injected) IN
            /\ httpSig' = c.httpSig
            /\ payload' = c.returned
            /\ UNCHANGED <<unsignedBytes, SIG_CONFIG>>
    /\ UNCHANGED <<wrapper, pc, item, sigInput, sigArgs, res, isValid, out>>

(* The signer resolves with r; the wrapper runs to its end *)
SignerResolves(r) ==
    /\ pc = "signer"
    /\ res' = r /\ pc' = "done"
    /\ IF wrapper = "ans104"
       THEN LET a == toDataItemSignerAfter(createCalled, unsignedBytes, r) IN
            /\ out' = a.out
            /\ isValid' = a.isValid
            /\ unsignedBytes' = a.bytes
       ELSE /\ out' = toHttpSignerAfter(createCalled, httpSig, sigArgs, r)
            /\ UNCHANGED <<isValid, unsignedBytes>>
    /\ UNCHANGED <<wrapper, item, sigInput, sigArgs, createCalled, createCount, httpSig, payload,
                   SIG_CONFIG>>

(* The signer rejects; the rejection propagates out of the wrapper *)
SignerRejects ==
    /\ pc = "signer"
    /\ pc' = "done" /\ out' = Throw("SignerError", NoCode)
    /\ UNCHANGED <<wrapper, item, sigInput, sigArgs, createCalled, createCount, unsignedBytes,
                   httpSig, payload, res, isValid, SIG_CONFIG>>

(* The caller has the outcome; the closure of the call is gone *)
CallEnds ==
    /\ pc = "done"
    /\ wrapper' = "none" /\ pc' = "idle" /\ item' = NoItem
    /\ sigInput' = NoArgs /\ sigArgs' = NoArgs
    /\ createCalled' = FALSE /\ createCount' = 0 /\ unsignedBytes' = Null
    /\ httpSig' = NoHttpSig /\ payload' = Undefined /\ res' = Undefined
    /\ isValid' = NotRun /\ out' = Pending
    /\ UNCHANGED SIG_CONFIG

RateIdle == now = 0 /\ operations = <<>> /\ lastCheck = Undefined /\ window = <<>>
HBIdle   == /\ hbObj = <<>> /\ hbPc = <<>> /\ flattened = <<>> /\ pending = <<>>
            /\ headerKeys = <<>> /\ bodyKeys = <<>> /\ hbBuilt = <<>> /\ hashing = <<>>
            /\ hbOut = <<>> /\ hashCache = <<>>
ItemIdle == itemFields = Undefined /\ ans104Request = Pending
DispIdle ==
    /\ signerSrc = "none" /\ signerKey = "" /\ signerKind = "" /\ signerFn = "none"
    /\ signerPc = "idle" /\ signerLog = <<>> /\ createArg = Undefined /\ signerOut = Pending
InitIdle ==
    initDeps = Undefined /\ initOut = Pending /\ signerFrom = "none" /\ created = FALSE
PairIdle == calls = <<>>
ShaIdle ==
    /\ shaPc = <<>> /\ shaData = <<>> /\ shaOut = <<>> /\ recent = <<>> /\ lastOp = Undefined
ReqIdle  == /\ deps = Undefined /\ args = Undefined /\ reqPc = "idle"
            /\ unsignedRequest = Undefined /\ fetched = Undefined /\ reqOut = Pending

InitSign == SignIdle /\ SIG_CONFIG = Undefined /\ RateIdle /\ HBIdle /\ ReqIdle /\ ItemIdle /\ DispIdle /\ InitIdle /\ ShaIdle /\ PairIdle
NextSign ==
    /\ \/ \E it \in Items : CallDataItemSigner(it)
       \/ \E h \in HeaderInits, p \in BOOLEAN : CallHttpSigner(h, p)
       \/ \E inj \in Injected : SignerInvokesCreate(inj)
       \/ \E r \in SignerResults(payload) : SignerResolves(r)
       \/ SignerRejects
       \/ CallEnds
    /\ UNCHANGED <<rateVars, hbVars, reqVars, itemVars, dispVars, initVars, shaVars, pairVars>>
SpecSign == InitSign /\ [][NextSign]_vars

----------------------------------------------------------------------------
(* Claims about the signing wrappers *)

SignerResolved == pc = "done" /\ out # Throw("SignerError", NoCode)
OnSignaturePath ==
    /\ wrapper = "ans104" /\ SignerResolved /\ createCalled
    /\ res # Null /\ Truthy(res.signature) /\ ~(Truthy(res.id) /\ Truthy(res.raw))

(* C1: for both wrappers, when the signer resolves without ever invoking
   create, the signing function fails with CRYPTO_CREATE_NOT_INVOKED and
   returns no signed artifact, whatever the signer returned. *)
C1_CreateNotInvoked ==
    (SignerResolved /\ ~createCalled)
        => out = Throw("CryptographicError", "CRYPTO_CREATE_NOT_INVOKED")

(* C2: on the signature path of toDataItemSigner an {id, raw} is returned only
   when VERIFY over the spliced buffer is true (so every returned raw
   verifies); whenever VERIFY ran and was false the call fails with
   CRYPTO_INVALID_SIGNATURE. *)
C2_VerifyGate ==
    OnSignaturePath =>
        /\ out.kind = "return" => (isValid = [ran |-> TRUE] /\ verify(out.value.raw))
        /\ isValid = [ran |-> FALSE]
              => out = Throw("CryptographicError", "CRYPTO_INVALID_SIGNATURE")
C2_Witness == OnSignaturePath /\ out.kind = "return" /\ out.value.raw = unsignedBytes
C2_WitnessRejected == OnSignaturePath /\ isValid = [ran |-> FALSE]

(* C15: on the passthrough path of toDataItemSigner, create(passthrough)
   hands back exactly the {data, tags, target, anchor} the signing function
   was called with and serializes nothing; and a signer result carrying both
   id and raw is returned as it is, with no splice, no verification and no
   identifier recomputation. *)
LogicalFields ==
    [data |-> item.data, tags |-> item.tags, target |-> item.target, anchor |-> item.anchor]
PassthroughCreate(inj) ==
    wrapper = "ans104" /\ inj.passthrough /\ SignerInvokesCreate(inj)
FullResultResolves(r) ==
    /\ wrapper = "ans104" /\ createCalled
    /\ r # Null /\ Truthy(r.id) /\ Truthy(r.raw)
    /\ SignerResolves(r)
C15_Passthrough ==
    [][ /\ \A inj \in Injected :
             PassthroughCreate(inj) =>
                 /\ payload' = LogicalFields
                 /\ unsignedBytes' = unsignedBytes
                 /\ SIG_CONFIG' = SIG_CONFIG
        /\ \A r \in SignerResults(payload) :
             FullResultResolves(r) =>
                 /\ out' = Return(r)
                 /\ isValid' = NotRun
                 /\ unsignedBytes' = unsignedBytes ]_vars
C15_Witness ==
    /\ wrapper = "ans104" /\ pc = "done" /\ createCount = 1
    /\ payload = LogicalFields /\ unsignedBytes = Null
    /\ res = WalletResult /\ out = Return(WalletResult)

(* C16: the signer identifier under which toHttpSigner stores the Signature
   and Signature-Input headers is http-sig- followed by the lowercase hex of
   the first 8 bytes, indices 0 to 7, of the decoded address. *)
HttpSigned == wrapper = "httpsig" /\ pc = "done" /\ out.kind = "return"
StoredUnder(name) ==
    /\ out.value.headers["Signature"].name = name
    /\ out.value.headers["Signature-Input"].name = name
HexOfBytes(address, first, last) ==
    [prefix |-> "http-sig-", hex |-> HexString(SubSeq(address.bytes, first + 1, last + 1))]
C16_FirstEightBytes == HttpSigned => StoredUnder(HexOfBytes(res.address, 0, 7))
(* C16, amended: the identifier is http-sig- followed by the lowercase hex of
   the 8 bytes at indices 1 to 8 of the decoded address; the byte at index 0
   is skipped. *)
C16_BytesOneToEight == HttpSigned => StoredUnder(HexOfBytes(res.address, 1, 8))
C16_Witness ==
    /\ HttpSigned
    /\ res.address.bytes[1] = 11
    /\ out.value.headers["Signature"].name.hex =
          <<"0", "2", "0", "3", "0", "4", "0", "5", "0", "6", "0", "7", "0", "8", "0", "c">>

(* C23: for every signature accepted by validateSignatureData (64 to 2048
   bytes, which covers the signatures of every key validateJWK accepts) the
   splice in toDataItemSigner writes only inside the signature region of the
   unsigned buffer, at offset 2 and of the fixed signature length; the
   signature type, owner, target, anchor, tags, data and the buffer length
   are as they were. *)
SpliceStep(r) ==
    /\ wrapper = "ans104" /\ createCalled /\ unsignedBytes # Null
    /\ r # Null /\ Truthy(r.signature) /\ ~(Truthy(r.id) /\ Truthy(r.raw))
    /\ validateSignatureData(r.signature) = "ok"
    /\ SignerResolves(r)
SameOutsideSignature(before, after) == [after EXCEPT !.sig = before.sig] = before
C23_SpliceFrame ==
    [][ \A r \in SignerResults(payload) :
            SpliceStep(r) => SameOutsideSignature(unsignedBytes, unsignedBytes') ]_vars
C23_WithinRegion ==
    [][ \A r \in SignerResults(payload) :
            (SpliceStep(r) /\ r.signature.len <= sigLength)
                => SameOutsideSignature(unsignedBytes, unsignedBytes') ]_vars
C23_WithinRegionHappens ==
    [][ \A r \in SignerResults(payload) :
            ~(SpliceStep(r) /\ r.signature.len <= sigLength) ]_vars

(* C5: the signature base handed to the signer lists the signed fields (every
   header name, and "@path" exactly when includePath) in ascending ASCII
   order, followed by "@signature-params" exactly once, as the last entry. *)
BaseNames(base) == [i \in 1..Len(base) |-> base[i].name]
ExpectedFields ==
    {toLowerCase(n) : n \in DOMAIN sigInput.headers}
        \cup (IF sigInput.includePath THEN {"@path"} ELSE {})
C5_SignatureBaseOrder ==
    (wrapper = "httpsig" /\ createCalled) =>
        LET names == BaseNames(payload)
            n     == Len(names)
        IN /\ payload = httpSig.signatureBase
           /\ n >= 1 /\ names[n] = SignatureParamsName
           /\ \A i \in 1..(n - 1) : names[i] # SignatureParamsName
           /\ \A i \in 1..(n - 2) : StrLess(names[i], names[i + 1])
           /\ {names[i] : i \in 1..(n - 1)} = ExpectedFields
C5_Witness ==
    /\ wrapper = "httpsig" /\ createCalled /\ out.kind = "return"
    /\ sigInput.includePath
    /\ {"0", "B", "_y"} \subseteq DOMAIN sigInput.headers

----------------------------------------------------------------------------
(* CryptoRateLimiter *)

windowMs      == 3   \* constructor argument windowMs (default 60000)
maxOperations == 2   \* constructor argument maxOperations (default 100)
MaxTime       == 7   \* Date.now() is followed up to this time
Identifiers   == {"signer-a", "signer-b"}

Get(map, k) == IF k \in DOMAIN map THEN map[k] ELSE Undefined
Set(map, k, v) == [x \in DOMAIN map \cup {k} |-> IF x = k THEN v ELSE map[x]]
Delete(map, K) == [x \in DOMAIN map \ K |-> map[x]]

WindowOverMutant(data, t) == t - data.windowStart >= 0
WindowOver(data, t) == t - data.windowStart >= windowMs

LimitReachedMutant(existing) == existing.count > maxOperations
LimitReached(existing) == existing.count >= maxOperations

(* The fixed window the claim speaks of, kept from the calls alone: a call
   opens a window when none is open or the open one is at least windowMs old;
   the first maxOperations calls of a window are expected to succeed; `count`
   is the number of calls of the window that were expected to succeed. *)
ExpectNewWindow(w, t) == w = Undefined \/ t >= w.start + windowMs
Expected(w, t) ==
    IF ExpectNewWindow(w, t) \/ w.count < maxOperations THEN "ok" ELSE "throw"
WindowAfter(w, t) ==
    IF ExpectNewWindow(w, t) THEN [start |-> t, count |-> 1]
    ELSE IF w.count < maxOperations THEN [w EXCEPT !.count = w.count + 1]
    ELSE w

(* Date.now() advances *)
Tick ==
    /\ now < MaxTime
    /\ now' = now + 1
    /\ UNCHANGED <<operations, lastCheck, window>>

(* cleanup(), run by the interval timer *)
cleanup ==
    /\ operations' = Delete(operations,
                            {i \in DOMAIN operations : WindowOver(operations[i], now)})
    /\ UNCHANGED <<now, lastCheck, window>>

(* checkLimit(identifier) *)
checkLimit(identifier) ==
    LET existing == Get(operations, identifier)
        w        == Get(window, identifier)
        result   == IF existing = Undefined \/ WindowOver(existing, now) THEN "ok"
                    ELSE IF LimitReached(existing) THEN "throw"
                    ELSE "ok"
    IN /\ operations' =
            IF existing = Undefined \/ WindowOver(existing, now)
            THEN Set(operations, identifier, [count |-> 1, windowStart |-> now])
            ELSE IF LimitReached(existing) THEN operations
            ELSE Set(operations, identifier, [existing EXCEPT !.count = existing.count + 1])
       /\ lastCheck' = [ identifier |-> identifier, at |-> now,
                         result     |-> result,
                         error      |-> IF result = "throw"
                                        THEN Throw("CryptographicError",
                                                   "CRYPTO_RATE_LIMIT_EXCEEDED")
                                        ELSE Undefined,
                         expected   |-> Expected(w, now),
                         newWindow  |-> ExpectNewWindow(w, now),
                         afterFull  |-> w # Undefined /\ w.count >= maxOperations,
                         entry      |-> Get(operations', identifier) ]
       /\ window' = Set(window, identifier, WindowAfter(w, now))
       /\ UNCHANGED now

InitRate == RateIdle /\ SignIdle /\ SIG_CONFIG = Undefined /\ HBIdle /\ ReqIdle /\ ItemIdle /\ DispIdle /\ InitIdle /\ ShaIdle /\ PairIdle
NextRate ==
    /\ \/ Tick
       \/ cleanup
       \/ \E i \in Identifiers : checkLimit(i)
    /\ UNCHANGED <<signVars, hbVars, reqVars, itemVars, dispVars, initVars, shaVars, pairVars>>
SpecRate == InitRate /\ [][NextRate]_vars

(* C4: for one identifier the first maxOperations calls inside a window
   succeed and the next call inside it throws CRYPTO_RATE_LIMIT_EXCEEDED; the
   first call at or after windowStart + windowMs succeeds and starts a new
   window with count 1, whatever calls on other identifiers and cleanup runs
   are interleaved. *)
C4_RateLimit ==
    lastCheck # Undefined =>
        /\ lastCheck.result = lastCheck.expected
        /\ lastCheck.result = "throw"
              => lastCheck.error = Throw("CryptographicError", "CRYPTO_RATE_LIMIT_EXCEEDED")
        /\ lastCheck.newWindow
              => lastCheck.entry = [count |-> 1, windowStart |-> lastCheck.at]
C4_Witness ==
    /\ lastCheck # Undefined
    /\ lastCheck.newWindow /\ lastCheck.afterFull /\ lastCheck.result = "ok"
    /\ \E i \in DOMAIN window : i # lastCheck.identifier
C4_WitnessThrow == lastCheck # Undefined /\ lastCheck.result = "throw"

----------------------------------------------------------------------------
(* HyperBEAM encoder (format B): JavaScript values of a Field Map.
   Every value carries its type; a string is a TLA+ string over ASCII, so
   that Buffer.byteLength is its length; the contents of a Uint8Array are
   a sequence of bytes.  An object is the sequence of its entries in
   Object.entries order; input keys are not integer-like. *)

Str(s)  == [t |-> "string", v |-> s]
U8(b)   == [t |-> "bytes", u8 |-> b]
Num(text, isInteger) == [t |-> "number", v |-> text, integer |-> isInteger]
Sym(description)     == [t |-> "symbol", v |-> description]
Bool(b) == [t |-> "boolean", b |-> b]
Arr(e)  == [t |-> "array", elems |-> e]
Pojo(e) == [t |-> "pojo", entries |-> e]
typeOf(x) ==
    IF "t" \in DOMAIN x THEN x.t
    ELSE IF "null" \in DOMAIN x THEN "null"
    ELSE "undefined"
isBytes(x) == typeOf(x) = "bytes"
isPojo(x)  == typeOf(x) = "pojo"
byteLength(s) == Len(s)

RECURSIVE Repeat(_, _)
Repeat(s, n) ==
    IF n = 0 THEN ""
    ELSE LET h == Repeat(s, n \div 2)
         IN h \o h \o (IF n % 2 = 1 THEN s ELSE "")
Fill(b, n) == [i \in 1..n |-> b]

RECURSIVE StrJoin(_, _)
StrJoin(seq, sep) ==
    IF seq = <<>> THEN ""
    ELSE IF Len(seq) = 1 THEN seq[1]
    ELSE seq[1] \o sep \o StrJoin(Tail(seq), sep)

(* TypedArray.prototype.toString: the bytes in decimal, joined by commas *)
RECURSIVE DecJoin(_, _, _)
DecJoin(b, lo, hi) ==
    IF lo > hi THEN ""
    ELSE IF lo = hi THEN ToString(b[lo])
    ELSE LET m == (lo + hi) \div 2
         IN DecJoin(b, lo, m) \o "," \o DecJoin(b, m + 1, hi)

(* String(value) *)
RECURSIVE String(_)
String(x) ==
    CASE typeOf(x) = "string"    -> x.v
      [] typeOf(x) = "bytes"     -> DecJoin(x.u8, 1, Len(x.u8))
      [] typeOf(x) = "number"    -> x.v
      [] typeOf(x) = "boolean"   -> IF x.b THEN "true" ELSE "false"
      [] typeOf(x) = "symbol"    -> "Symbol(" \o x.v \o ")"
      [] typeOf(x) = "array"     ->
            StrJoin([i \in DOMAIN x.elems |->
                        IF typeOf(x.elems[i]) \in {"null", "undefined"} THEN ""
                        ELSE String(x.elems[i])], ",")
      [] typeOf(x) = "pojo"      -> "[object Object]"
      [] typeOf(x) = "null"      -> "null"
      [] typeOf(x) = "undefined" -> "undefined"

(* hbEncodeValue(value): the values on which it does not throw *)
RECURSIVE CanEncode(_)
CanEncode(value) ==
    \/ typeOf(value) \in {"bytes", "string", "number", "symbol"}
    \/ /\ typeOf(value) = "array"
       /\ \A i \in DOMAIN value.elems : CanEncode(value.elems[i])

(* hbEncodeValue(value): [type, encoded] *)
RECURSIVE hbEncodeValue(_)
hbEncodeValue(value) ==
    CASE typeOf(value) = "bytes" ->
            IF Len(value.u8) = 0 THEN [type |-> Undefined, encoded |-> Str("")]
            ELSE [type |-> Undefined, encoded |-> U8(value.u8)]
      [] typeOf(value) = "string" -> [type |-> Undefined, encoded |-> Str(value.v)]
      [] typeOf(value) = "array" ->
            IF Len(value.elems) = 0 THEN [type |-> Str("empty-list"), encoded |-> Undefined]
            ELSE LET member(v) ==
                        LET te == hbEncodeValue(v)
                            t  == IF Truthy(te.type) THEN te.type.v ELSE "binary"
                        IN IF te.encoded = Undefined THEN <<>>
                           ELSE <<"(ao-type-" \o t \o ") " \o String(te.encoded)>>
                     RECURSIVE parts(_)
                     parts(i) == IF i > Len(value.elems) THEN <<>>
                                 ELSE member(value.elems[i]) \o parts(i + 1)
                 IN [type |-> Str("list"), encoded |-> Str(StrJoin(parts(1), ","))]
      [] typeOf(value) = "number" ->
            IF ~value.integer THEN [type |-> Str("float"), encoded |-> Str(value.v)]
            ELSE [type |-> Str("integer"), encoded |-> Str(value.v)]
      [] typeOf(value) = "symbol" -> [type |-> Str("atom"), encoded |-> Str(value.v)]

(* Objects as entry sequences: obj[key] = v keeps the place of a present key *)
ObjKeys(o)   == [i \in DOMAIN o |-> o[i].key]
ObjHas(o, k) == \E i \in DOMAIN o : o[i].key = k
ObjGet(o, k) == IF ObjHas(o, k) THEN o[CHOOSE i \in DOMAIN o : o[i].key = k].val
                ELSE Undefined
ObjSet(o, k, v) ==
    IF ObjHas(o, k) THEN [i \in DOMAIN o |-> IF o[i].key = k THEN [key |-> k, val |-> v] ELSE o[i]]
    ELSE Append(o, [key |-> k, val |-> v])
RECURSIVE ObjAssign(_, _)
ObjAssign(target, source) ==
    IF source = <<>> THEN target
    ELSE ObjAssign(ObjSet(target, Head(source).key, Head(source).val), Tail(source))

MAX_HEADER_LENGTH == 4096

(* the array-of-objects conversion: value.reduce((acc, v, i) => ({...acc, [i]: v}), {}) *)
IndexObject(arr) ==
    Pojo([i \in DOMAIN arr.elems |-> [key |-> ToString(i - 1), val |-> arr.elems[i]]])

(* hbEncodeLift throws exactly when hbEncodeValue is reached with a value
   it cannot encode *)
RECURSIVE CanLift(_)
CanLift(entries) ==
    \A i \in DOMAIN entries :
        LET val   == entries[i].val
            value == IF typeOf(val) = "array" /\ \E j \in DOMAIN val.elems : isPojo(val.elems[j])
                     THEN IndexObject(val) ELSE val
        IN \/ typeOf(val) \in {"null", "undefined"}
           \/ isPojo(value) /\ CanLift(value.entries)
           \/ ~isPojo(value) /\ CanEncode(value)

(* the ao-types value of one level: `key=tag` pairs in the order of typesObj *)
AoTypes(typesObj) ==
    StrJoin([i \in DOMAIN typesObj |-> toLowerCase(typesObj[i].key) \o "=" \o typesObj[i].val.v], ",")

(* hbEncodeLift(obj, parent, top); the reducer works on [flat, types, top] *)
RECURSIVE hbEncodeLift(_, _, _)
FlatKey(parent, key) ==
    IF parent # "" THEN toLowerCase(parent \o "/" \o key) ELSE toLowerCase(key)
LiftValue(val) ==
    IF typeOf(val) = "array" /\ \E j \in DOMAIN val.elems : isPojo(val.elems[j])
    THEN IndexObject(val) ELSE val
EncodedLength(encoded) ==
    IF typeOf(encoded) = "string" THEN byteLength(encoded.v) ELSE Len(encoded.u8)
LiftStore(acc, key, flatKey, encoded) ==
    IF encoded = Undefined THEN acc
    ELSE IF EncodedLength(encoded) > MAX_HEADER_LENGTH
    THEN [acc EXCEPT !.top = ObjSet(@, flatKey, encoded)]
    ELSE [acc EXCEPT !.flat = ObjSet(@, key, encoded)]
LiftType(stored, key, type) ==
    IF Truthy(type) THEN [stored EXCEPT !.types = ObjSet(@, key, type)] ELSE stored
LiftScalar(acc, key, flatKey, te) ==
    LiftType(LiftStore(acc, key, flatKey, te.encoded), key, te.type)
LiftEntry(acc, key, val, value, flatKey) ==
    IF typeOf(val) \in {"null", "undefined"} THEN acc
    ELSE IF isPojo(value)
    THEN [acc EXCEPT !.top = hbEncodeLift(value.entries, flatKey, acc.top)]
    ELSE LiftScalar(acc, key, flatKey, hbEncodeValue(value))
RECURSIVE LiftReduce(_, _, _)
LiftReduce(entries, parent, acc) ==
    IF entries = <<>> THEN acc
    ELSE LiftReduce(Tail(entries), parent,
                    LiftEntry(acc, Head(entries).key, Head(entries).val,
                              LiftValue(Head(entries).val),
                              FlatKey(parent, Head(entries).key)))
LiftTypes(r, parent, aoTypes) ==
    IF Len(r.types) > 0
    THEN IF byteLength(aoTypes) > MAX_HEADER_LENGTH
         THEN [r EXCEPT !.top = ObjSet(@, IF parent # "" THEN parent \o "/ao-types"
                                          ELSE "ao-types", Str(aoTypes))]
         ELSE [r EXCEPT !.flat = ObjSet(@, "ao-types", Str(aoTypes))]
    ELSE r
LiftResult(r, typed, parent) ==
    IF Len(r.flat) = 0 /\ parent = "" THEN r.top
    ELSE IF parent # "" THEN ObjSet(typed.top, parent, Pojo(typed.flat))
    ELSE ObjAssign(typed.top, typed.flat)
LiftFinish(r, parent) == LiftResult(r, LiftTypes(r, parent, AoTypes(r.types)), parent)
hbEncodeLift(obj, parent, top) ==
    LiftFinish(LiftReduce(obj, parent, [flat |-> <<>>, types |-> <<>>, top |-> top]), parent)

----------------------------------------------------------------------------
(* Binary contents (Blob, ArrayBuffer): a sequence of chunks, each a text,
   the bytes of a Uint8Array, or a slice of the base64url text of a digest.
   Adjacent texts are merged and empty chunks dropped, so that equal
   contents built from the same pieces are equal values. *)

DigestBytes == 32
B64Length   == (DigestBytes * 4 + 2) \div 3
ChunkLen(c) ==
    IF c.t = "b64" THEN c.to - c.from + 1
    ELSE IF c.t = "bytes" THEN Len(c.u8)
    ELSE Len(c.v)
Slice(c, i, j) ==
    IF c.t = "b64" THEN [c EXCEPT !.from = c.from + i - 1, !.to = c.from + j - 1]
    ELSE IF c.t = "bytes" THEN [c EXCEPT !.u8 = SubSeq(c.u8, i, j)]
    ELSE [c EXCEPT !.v = SubSeq(c.v, i, j)]
Cat(a, b) ==
    IF a = <<>> THEN b
    ELSE IF b = <<>> THEN a
    ELSE IF a[Len(a)].t = "string" /\ b[1].t = "string"
         THEN SubSeq(a, 1, Len(a) - 1) \o <<Str(a[Len(a)].v \o b[1].v)>> \o Tail(b)
    ELSE a \o b
RECURSIVE ByteLen(_)
ByteLen(x) == IF x = <<>> THEN 0 ELSE ChunkLen(Head(x)) + ByteLen(Tail(x))
RECURSIVE Take(_, _)
Take(x, n) ==
    IF n <= 0 \/ x = <<>> THEN <<>>
    ELSE IF ChunkLen(Head(x)) <= n THEN <<Head(x)>> \o Take(Tail(x), n - ChunkLen(Head(x)))
    ELSE <<Slice(Head(x), 1, n)>>
RECURSIVE TakeLast(_, _)
TakeLast(x, n) ==
    IF n <= 0 \/ x = <<>> THEN <<>>
    ELSE LET last == x[Len(x)]
             rest == SubSeq(x, 1, Len(x) - 1)
         IN IF ChunkLen(last) <= n THEN TakeLast(rest, n - ChunkLen(last)) \o <<last>>
            ELSE <<Slice(last, ChunkLen(last) - n + 1, ChunkLen(last))>>

(* one part of `new Blob(parts)`: a string, a Uint8Array or ArrayBuffer, a
   Blob, and anything else through String() *)
Text(s) == IF s = "" THEN <<>> ELSE <<Str(s)>>
BlobPart(x) ==
    CASE typeOf(x) = "blob"   -> x.chunks
      [] typeOf(x) = "b64"    -> <<x>>
      [] typeOf(x) = "bytes"  -> IF Len(x.u8) = 0 THEN <<>> ELSE <<x>>
      [] OTHER                -> Text(String(x))
RECURSIVE BlobParts(_)
BlobParts(parts) == IF parts = <<>> THEN <<>> ELSE Cat(BlobPart(Head(parts)), BlobParts(Tail(parts)))
Blob(parts) == [t |-> "blob", chunks |-> BlobParts(parts)]

(* crypto.subtle.digest('SHA-256', data), collision-free; encodeBase64Url *)
DIGEST(data) == [sha256 |-> data]
encodeBase64Url(hash) == [t |-> "b64", hash |-> hash, from |-> 1, to |-> B64Length]

(* HashCache: the Map as the sequence of its entries in insertion order *)
maxSize      == 100
HashKeyWhole == 16
HashKeyEdge  == 8
getKey(data) ==
    IF ByteLen(data) <= HashKeyWhole THEN [bytes |-> data]
    ELSE [first |-> Take(data, HashKeyEdge), last |-> TakeLast(data, HashKeyEdge),
          length |-> ByteLen(data)]
HashCacheGetMutant(cache, data) ==
    [ result |-> ObjGet(cache, getKey(data)), cache |-> cache ]
HashCacheGet(cache, data) ==
    LET key    == getKey(data)
        result == ObjGet(cache, key)
    IN [ result |-> result,
         cache  |-> IF Truthy(result)
                    THEN Append(SelectSeq(cache, LAMBDA e : e.key # key),
                                [key |-> key, val |-> result])
                    ELSE cache ]
(* set(data, hash) on an instance whose maxSize field is `size` *)
HashCacheRoom(cache, size) == IF Len(cache) >= size THEN Tail(cache) ELSE cache
HashCacheSetAt(cache, data, hash, size) ==
    ObjSet(HashCacheRoom(cache, size), getKey(data), hash)
HashCacheSet(cache, data, hash) == HashCacheSetAt(cache, data, hash, maxSize)

(* sha256(data) of utils.ts when nothing else runs between its get and set *)
sha256(cache, data) ==
    LET got == HashCacheGet(cache, data)
    IN IF Truthy(got.result) THEN [hash |-> got.result, cache |-> got.cache]
       ELSE [hash |-> DIGEST(data), cache |-> HashCacheSet(got.cache, data, DIGEST(data))]

----------------------------------------------------------------------------
(* The Headers object: lower-cased name -> value; iteration sorted by name.
   Keys of the inputs are valid header names apart from `/`. *)

NewHeaders == [n \in {} |-> <<>>]
HeadersAppend(h, name, value) ==
    LET n == toLowerCase(name)
    IN [m \in DOMAIN h \cup {n} |->
          IF m # n THEN h[m]
          ELSE IF n \in DOMAIN h THEN Cat(Cat(h[n], Text(", ")), value)
          ELSE value]
HeadersSet(h, name, value) ==
    LET n == toLowerCase(name)
    IN [m \in DOMAIN h \cup {n} |-> IF m # n THEN h[m] ELSE value]
HeadersDelete(h, name) == [m \in DOMAIN h \ {toLowerCase(name)} |-> h[m]]

(* hasNewline(value) *)
NewlineCode == 10
hasNewline(value) ==
    CASE typeOf(value) = "string" -> includes(value.v, "\n")
      [] typeOf(value) = "bytes"  -> \E i \in DOMAIN value.u8 : value.u8[i] = NewlineCode
      [] OTHER -> FALSE

(* toHBRequest: the test of one classification callback *)
needsBody(key, value) ==
    \/ hasNewline(value)
    \/ includes(key, "/")
    \/ byteLength(String(value)) > MAX_HEADER_LENGTH
ScalarPart(key, value) ==
    Blob(<<Str("content-disposition: form-data; name=\"" \o key \o "\"\r\n\r\n"),
           Str(String(value))>>)

(* encodePart(name, part) *)
encodePart(name, part) ==
    LET names    == SetToSortedSeq(DOMAIN part.headers)
        hdrLine(n) == [t |-> "blob",
                       chunks |-> Cat(Cat(Text(n \o ": "), part.headers[n]), Text("\r\n"))]
        content    == <<Str("content-disposition: form-data; name=\"" \o name \o "\"\r\n")>>
                      \o [i \in DOMAIN names |-> hdrLine(names[i])]
    IN IF part.body # Undefined THEN Blob(content \o <<Str("\r\n"), part.body>>)
       ELSE Blob(content)

(* toHBRequest: the entries of `flattened` that hold no object, classified
   in entry order *)
RECURSIVE ClassifyScalars(_, _)
ClassifyScalars(entries, acc) ==
    IF entries = <<>> THEN acc
    ELSE LET key   == Head(entries).key
             value == Head(entries).val
             next  == IF isPojo(value) THEN acc
                      ELSE IF needsBody(key, value)
                           THEN [acc EXCEPT !.bodyKeys = Append(@, key),
                                            !.flattened = ObjSet(@, key, ScalarPart(key, value))]
                      ELSE [acc EXCEPT !.headerKeys = Append(@, key)]
         IN ClassifyScalars(Tail(entries), next)

(* toHBRequest: headerKeys.forEach((k) => headers.append(k, String(flattened[k]))) *)
RECURSIVE AppendHeaders(_, _, _)
AppendHeaders(h, keys, flat) ==
    IF keys = <<>> THEN h
    ELSE AppendHeaders(HeadersAppend(h, Head(keys), Text(String(ObjGet(flat, Head(keys))))),
                       Tail(keys), flat)

(* toHBRequest: the single-part branch *)
SingleBody(obj) == Blob(<<ObjGet(obj, "data")>>)
SingleHeaders(h, bodyKey) ==
    HeadersDelete(HeadersAppend(h, "inline-body-key", Text(bodyKey)), bodyKey)

(* toHBRequest: the multipart branch *)
PartsBuffers(keys, flat) == [i \in DOMAIN keys |-> ObjGet(flat, keys[i])]
RECURSIVE Interleave(_, _)
Interleave(bufs, sep) ==
    IF Len(bufs) <= 1 THEN bufs
    ELSE <<Head(bufs), sep>> \o Interleave(Tail(bufs), sep)
PartsBase(partsBuffers) == Blob(Interleave(partsBuffers, Str("\r\n")))
RECURSIVE Sections(_, _)
Sections(bufs, boundary) ==
    IF bufs = <<>> THEN <<Str("--"), boundary, Str("--")>>
    ELSE <<Str("--"), boundary, Str("\r\n"), Head(bufs), Str("\r\n")>>
         \o Sections(Tail(bufs), boundary)
MultipartBody(partsBuffers, boundary) == Blob(Sections(partsBuffers, boundary))
MultipartHeaders(h, boundary) ==
    HeadersSet(h, "Content-Type",
               Cat(Cat(Text("multipart/form-data; boundary=\""), <<boundary>>), Text("\"")))
DigestHeaders(h, cdHash) ==
    HeadersAppend(h, "Content-Digest",
                  Cat(Cat(Text("sha-256=:"), <<encodeBase64Url(cdHash)>>), Text(":")))

(* toHBRequest(obj) for the object of a nested level, whose fields are all
   encoded scalars; its hashing goes through the cache in one piece *)
Classified(flat) ==
    ClassifyScalars(flat, [flattened |-> flat, headerKeys |-> <<>>, bodyKeys |-> <<>>])
Digested(headers, body, sh) ==
    [result |-> [headers |-> DigestHeaders(headers, sh.hash), body |-> body],
     cache  |-> sh.cache]
BuildSingle(headers, bodyKey, single, cache) ==
    Digested(SingleHeaders(headers, bodyKey), single, sha256(cache, single.chunks))
BuildBounded(headers, multi, bh) ==
    Digested(MultipartHeaders(headers, encodeBase64Url(bh.hash)), multi,
             sha256(bh.cache, multi.chunks))
BuildBoundary(headers, parts, bh) ==
    BuildBounded(headers, MultipartBody(parts, encodeBase64Url(bh.hash)), bh)
BuildMultipart(headers, parts, cache) ==
    BuildBoundary(headers, parts, sha256(cache, PartsBase(parts).chunks))
BuildBody(obj, c, headers, cache) ==
    IF Len(c.bodyKeys) = 0
    THEN [result |-> [headers |-> headers, body |-> Undefined], cache |-> cache]
    ELSE IF Len(c.bodyKeys) = 1
    THEN BuildSingle(headers, c.bodyKeys[1], SingleBody(obj), cache)
    ELSE BuildMultipart(headers, PartsBuffers(c.bodyKeys, c.flattened), cache)
BuildRequest(obj, c, cache) ==
    BuildBody(obj, c, AppendHeaders(NewHeaders, c.headerKeys, c.flattened), cache)
NestedRequest(obj, cache) ==
    IF Len(obj) = 0 THEN [result |-> Undefined, cache |-> cache]
    ELSE BuildRequest(obj, Classified(hbEncodeLift(obj, "", <<>>)), cache)

----------------------------------------------------------------------------
(* toHBRequest as a state machine: calls 1 and 2 are given the same Field
   Map, call 3 another one; all share the process-wide hash cache.  A call
   is cut at the awaits that wait for something outside the microtask queue:
   the nested parts that read and hash a body, and crypto.subtle.digest. *)

Field(k, v) == [key |-> k, val |-> v]
LongLen  == MAX_HEADER_LENGTH + 1
BytesLen == (MAX_HEADER_LENGTH \div 4) + 1
FieldMaps ==
    { <<>>,
      <<Field("Action", Str("Test"))>>,
      <<Field("data", Str("a\nb"))>>,
      <<Field("body", Str("a\nb"))>>,
      <<Field("n", Num("1", TRUE))>>,
      <<Field("tags", Arr(<<>>))>>,
      <<Field("x", Null)>>,
      <<Field("flag", Bool(TRUE))>>,
      <<Field("l", Arr(<<Str("a"), Bool(FALSE)>>))>>,
      <<Field("k", U8(Fill(200, BytesLen)))>>,
      <<Field("k", Str(Repeat("x", LongLen)))>>,
      <<Field("a/b", Str("x"))>>,
      <<Field("data", U8(<<200, 10>>)), Field("Action", Str("Test"))>>,
      <<Field("l", Arr(<<Str("a"), Num("2", TRUE)>>)), Field("s", Sym("ok")),
        Field("f", Num("1.5", FALSE))>>,
      <<Field("a", Str("1\n")), Field("b", Str("2\n"))>>,
      <<Field("a", Pojo(<<Field("x", Str("1"))>>))>>,
      <<Field("a", Pojo(<<Field("x", Str("1\n"))>>)),
        Field("b", Pojo(<<Field("y", Str("2\n"))>>))>>,
      <<Field("l", Arr(<<Arr(<<>>), Str("a")>>))>>,
      <<Field("l", Arr(<<Str("a,b")>>))>> }
OtherFieldMaps ==
    { <<Field("Action", Str("Test"))>>,
      <<Field("a", Str("9\n")), Field("b", Str("2\n"))>> }
Calls == {1, 2, 3}

(* the nested entries of `flattened`, by what their callback waits for *)
NestedKeys(flat) == SelectSeq(ObjKeys(flat), LAMBDA k : isPojo(ObjGet(flat, k)))
NestedResult(flat, k, cache) == NestedRequest(ObjGet(flat, k).entries, cache)
ReadsBody(flat, k) ==
    /\ NestedResult(flat, k, <<>>).result # Undefined
    /\ NestedResult(flat, k, <<>>).result.body # Undefined

(* the callbacks that finish within the microtask queue, in entry order:
   the scalars, then the nested parts without a body *)
RECURSIVE ClassifyNested(_, _)
ClassifyNested(keys, acc) ==
    IF keys = <<>> THEN acc
    ELSE LET k    == Head(keys)
             sub  == NestedResult(acc.flattened, k, <<>>).result
             next == IF sub = Undefined \/ ReadsBody(acc.flattened, k) THEN acc
                     ELSE [acc EXCEPT !.bodyKeys = Append(@, k),
                                      !.flattened = ObjSet(@, k, encodePart(k, sub))]
         IN ClassifyNested(Tail(keys), next)
ClassifyMicrotasks(flat) ==
    ClassifyNested(NestedKeys(flat),
                   ClassifyScalars(flat, [flattened |-> flat, headerKeys |-> <<>>,
                                          bodyKeys |-> <<>>]))

NoHashing == [data |-> <<>>, cached |-> Undefined]
NoBuilt   == [headers |-> NewHeaders, body |-> Undefined, partsBuffers |-> <<>>]
(* sha256(data) up to its await: hashCache.get(data) *)
StartSha256(i, data) ==
    LET got == HashCacheGet(hashCache, data)
    IN /\ hashCache' = got.cache
       /\ hashing' = [hashing EXCEPT ![i] = [data |-> data, cached |-> got.result]]

HBStart ==
    /\ hbPc = [i \in Calls |-> "idle"]
    /\ flattened = [i \in Calls |-> <<>>]
    /\ pending = [i \in Calls |-> {}]
    /\ headerKeys = [i \in Calls |-> <<>>]
    /\ bodyKeys = [i \in Calls |-> <<>>]
    /\ hbBuilt = [i \in Calls |-> NoBuilt]
    /\ hashing = [i \in Calls |-> NoHashing]
    /\ hbOut = [i \in Calls |-> Pending]
    /\ hashCache = <<>>

(* toHBRequest(obj), up to `await Promise.all(...)` and through the
   callbacks that need no input or digest *)
CallToHBRequest(i) ==
    /\ hbPc[i] = "idle"
    /\ LET obj == hbObj[i]
           c   == ClassifyMicrotasks(hbEncodeLift(obj, "", <<>>))
       IN IF Len(obj) = 0
          THEN /\ hbPc' = [hbPc EXCEPT ![i] = "done"]
               /\ hbOut' = [hbOut EXCEPT ![i] = Return(Undefined)]
               /\ UNCHANGED <<flattened, pending, headerKeys, bodyKeys>>
          ELSE IF ~CanLift(obj)
          THEN /\ hbPc' = [hbPc EXCEPT ![i] = "done"]
               /\ hbOut' = [hbOut EXCEPT ![i] = Throw("Error", NoCode)]
               /\ UNCHANGED <<flattened, pending, headerKeys, bodyKeys>>
          ELSE /\ hbPc' = [hbPc EXCEPT ![i] = "classify"]
               /\ flattened' = [flattened EXCEPT ![i] = c.flattened]
               /\ headerKeys' = [headerKeys EXCEPT ![i] = c.headerKeys]
               /\ bodyKeys' = [bodyKeys EXCEPT ![i] = c.bodyKeys]
               /\ pending' = [pending EXCEPT ![i] =
                                 {k \in Range(NestedKeys(c.flattened)) :
                                     ReadsBody(c.flattened, k)}]
               /\ UNCHANGED hbOut
    /\ UNCHANGED <<hbObj, hbBuilt, hashing, hashCache>>

(* the callback of a nested part with a body completes: the nested
   toHBRequest has read and hashed its body *)
CallbackCompletes(i, k) ==
    /\ hbPc[i] = "classify"
    /\ k \in pending[i]
    /\ LET sub == NestedResult(flattened[i], k, hashCache)
       IN /\ hashCache' = sub.cache
          /\ bodyKeys' = [bodyKeys EXCEPT ![i] = Append(@, k)]
          /\ flattened' = [flattened EXCEPT ![i] = ObjSet(@, k, encodePart(k, sub.result))]
    /\ pending' = [pending EXCEPT ![i] = @ \ {k}]
    /\ UNCHANGED <<hbObj, hbPc, headerKeys, hbBuilt, hashing, hbOut>>

(* Promise.all has resolved: headers, then the body or the multipart base *)
AllSettled(i) ==
    /\ hbPc[i] = "classify"
    /\ pending[i] = {}
    /\ LET headers == AppendHeaders(NewHeaders, headerKeys[i], flattened[i])
           single  == SingleBody(hbObj[i])
           parts   == PartsBuffers(bodyKeys[i], flattened[i])
       IN IF Len(bodyKeys[i]) = 0
          THEN /\ hbPc' = [hbPc EXCEPT ![i] = "done"]
               /\ hbOut' = [hbOut EXCEPT ![i] =
                               Return([headers |-> headers, body |-> Undefined])]
               /\ UNCHANGED <<hbBuilt, hashing, hashCache>>
          ELSE IF Len(bodyKeys[i]) = 1
          THEN /\ hbPc' = [hbPc EXCEPT ![i] = "digest"]
               /\ hbBuilt' = [hbBuilt EXCEPT ![i] =
                                 [headers |-> SingleHeaders(headers, bodyKeys[i][1]),
                                  body |-> single, partsBuffers |-> <<>>]]
               /\ StartSha256(i, single.chunks)
               /\ UNCHANGED hbOut
          ELSE /\ hbPc' = [hbPc EXCEPT ![i] = "boundary"]
               /\ hbBuilt' = [hbBuilt EXCEPT ![i] =
                                 [headers |-> headers, body |-> Undefined,
                                  partsBuffers |-> parts]]
               /\ StartSha256(i, PartsBase(parts).chunks)
               /\ UNCHANGED hbOut
    /\ UNCHANGED <<hbObj, flattened, pending, headerKeys, bodyKeys>>

(* sha256(data) resumes: the cached hash, or the digest, which it stores;
   then the multipart body is built and hashed, or the call returns *)
DigestResolves(i) ==
    /\ hbPc[i] \in {"boundary", "digest"}
    /\ LET miss   == ~Truthy(hashing[i].cached)
           hash   == IF miss THEN DIGEST(hashing[i].data) ELSE hashing[i].cached
           cache1 == IF miss THEN HashCacheSet(hashCache, hashing[i].data, hash)
                     ELSE hashCache
           boundary == encodeBase64Url(hash)
           body     == MultipartBody(hbBuilt[i].partsBuffers, boundary)
           got      == HashCacheGet(cache1, body.chunks)
       IN IF hbPc[i] = "boundary"
          THEN /\ hbPc' = [hbPc EXCEPT ![i] = "digest"]
               /\ hbBuilt' = [hbBuilt EXCEPT ![i] =
                                 [headers |-> MultipartHeaders(@.headers, boundary),
                                  body |-> body, partsBuffers |-> @.partsBuffers]]
               /\ hashCache' = got.cache
               /\ hashing' = [hashing EXCEPT ![i] =
                                 [data |-> body.chunks, cached |-> got.result]]
               /\ UNCHANGED hbOut
          ELSE /\ hbPc' = [hbPc EXCEPT ![i] = "done"]
               /\ hbOut' = [hbOut EXCEPT ![i] =
                               Return([headers |-> DigestHeaders(hbBuilt[i].headers, hash),
                                       body |-> hbBuilt[i].body])]
               /\ hashCache' = cache1
               /\ hashing' = [hashing EXCEPT ![i] = NoHashing]
               /\ UNCHANGED hbBuilt
    /\ UNCHANGED <<hbObj, flattened, pending, headerKeys, bodyKeys>>

InitHB ==
    /\ \E f \in FieldMaps, g \in OtherFieldMaps : hbObj = (1 :> f) @@ (2 :> f) @@ (3 :> g)
    /\ HBStart
    /\ SignIdle /\ SIG_CONFIG = Undefined /\ RateIdle /\ ReqIdle /\ ItemIdle /\ DispIdle /\ InitIdle /\ ShaIdle /\ PairIdle
NextHB ==
    /\ \/ \E i \in Calls : CallToHBRequest(i)
       \/ \E i \in Calls : \E k \in pending[i] : CallbackCompletes(i, k)
       \/ \E i \in Calls : AllSettled(i)
       \/ \E i \in Calls : DigestResolves(i)
    /\ UNCHANGED <<signVars, rateVars, reqVars, itemVars, dispVars, initVars, shaVars, pairVars>>
SpecHB == InitHB /\ [][NextHB]_vars

----------------------------------------------------------------------------
(* Properties of toHBRequest *)

Returned(i)   == hbPc[i] = "done" /\ hbOut[i].kind = "return" /\ hbOut[i].value # Undefined
LowerKeys(ks) == {toLowerCase(ks[n]) : n \in DOMAIN ks}
IsScalar(val) == typeOf(val) \in {"string", "bytes", "number", "symbol"}
EncodedSize(val) ==
    LET enc == hbEncodeValue(val).encoded
    IN IF typeOf(enc) = "bytes" THEN Len(enc.u8) ELSE Len(enc.v)
TextHasNewline(val) ==
    LET enc == hbEncodeValue(val).encoded
    IN IF typeOf(enc) = "bytes" THEN \E n \in DOMAIN enc.u8 : enc.u8[n] = NewlineCode
       ELSE includes(enc.v, "\n")

(* C6: two calls of toHBRequest that were given identical Field Maps return
   identical headers and identical bodies, whatever the order in which
   the callbacks completed and whatever else went through the hash cache. *)
C6_Deterministic ==
    \A i, j \in Calls :
        (hbObj[i] = hbObj[j] /\ hbPc[i] = "done" /\ hbPc[j] = "done") => hbOut[i] = hbOut[j]

(* C7: an unnested scalar field is a Body Part if and only if its encoded
   size exceeds 4096 bytes, or its text holds a newline, or its key holds
   `/`; otherwise it is a Header Part. *)
ExpectBodyPart(key, val) ==
    \/ EncodedSize(val) > MAX_HEADER_LENGTH
    \/ TextHasNewline(val)
    \/ includes(key, "/")
C7_Classification ==
    \A i \in Calls : Returned(i) =>
        \A n \in DOMAIN hbObj[i] :
            LET key == hbObj[i][n].key
                val == hbObj[i][n].val
            IN IsScalar(val) =>
                  /\ toLowerCase(key) \in LowerKeys(bodyKeys[i]) <=> ExpectBodyPart(key, val)
                  /\ toLowerCase(key) \in LowerKeys(headerKeys[i]) <=> ~ExpectBodyPart(key, val)

(* C8: a non-empty Field Map of unnested scalars, each shorter than 4096
   bytes and newline-free (and with no `/` in a key), comes back with every
   field and the synthesized ao-types as a header, and with no body. *)
ShortScalars(obj) ==
    /\ Len(obj) > 0
    /\ \A n \in DOMAIN obj :
          /\ IsScalar(obj[n].val)
          /\ EncodedSize(obj[n].val) < MAX_HEADER_LENGTH
          /\ ~TextHasNewline(obj[n].val)
          /\ ~includes(obj[n].key, "/")
BodyHeaders == {"inline-body-key", "content-type", "content-digest"}
C8_HeadersOnly ==
    \A i \in Calls : (hbPc[i] = "done" /\ ShortScalars(hbObj[i])) =>
        /\ Returned(i)
        /\ hbOut[i].value.body = Undefined
        /\ DOMAIN hbOut[i].value.headers \cap BodyHeaders = {}
        /\ \A n \in DOMAIN hbObj[i] :
              toLowerCase(hbObj[i][n].key) \in DOMAIN hbOut[i].value.headers
        /\ (\E n \in DOMAIN hbObj[i] : Truthy(hbEncodeValue(hbObj[i][n].val).type))
              => "ao-types" \in DOMAIN hbOut[i].value.headers

(* C9: when exactly one Body Part results, with key k, the body is the
   encoded value of field k verbatim, the header inline-body-key is k and k
   is not a header; for every key k. *)
C9_InlineBody ==
    \A i \in Calls : (Returned(i) /\ Len(bodyKeys[i]) = 1) =>
        LET k       == bodyKeys[i][1]
            encoded == ObjGet(hbEncodeLift(hbObj[i], "", <<>>), k)
        IN ~isPojo(encoded) =>
              /\ hbOut[i].value.body = Blob(<<encoded>>)
              /\ "inline-body-key" \in DOMAIN hbOut[i].value.headers
              /\ hbOut[i].value.headers["inline-body-key"] = Text(k)
              /\ toLowerCase(k) \notin DOMAIN hbOut[i].value.headers

(* C10: the top level gets an ao-types field if and only if one of its
   fields received a type tag, and it then holds the `key=tag` pair of each
   such field. *)
Contains(s, sub) ==
    \E n \in 1..(Len(s) - Len(sub) + 1) : SubSeq(s, n, n + Len(sub) - 1) = sub
Tagged(obj) ==
    {n \in DOMAIN obj : /\ typeOf(obj[n].val) \in {"array", "number", "symbol"}
                        /\ ~(typeOf(obj[n].val) = "array"
                             /\ \E m \in DOMAIN obj[n].val.elems : isPojo(obj[n].val.elems[m]))}
C10_AoTypes ==
    \A i \in Calls : Returned(i) =>
        LET headers == hbOut[i].value.headers
        IN /\ "ao-types" \in DOMAIN headers <=> Tagged(hbObj[i]) # {}
           /\ \A n \in Tagged(hbObj[i]) :
                 /\ Len(headers["ao-types"]) = 1
                 /\ Contains(headers["ao-types"][1].v,
                             toLowerCase(hbObj[i][n].key) \o "="
                                \o hbEncodeValue(hbObj[i][n].val).type.v)

(* C25: the `key=tag` pairs of a synthesized ao-types field are listed in
   ascending order of key, whatever the insertion order of the fields in the
   input Field Map, so that Field Maps with the same fields in a different
   order produce the same ao-types value. *)
RECURSIVE CodesBefore(_, _)
CodesBefore(a, b) ==
    IF a = <<>> THEN b # <<>>
    ELSE IF b = <<>> THEN FALSE
    ELSE IF a[1] # b[1] THEN a[1] < b[1]
    ELSE CodesBefore(Tail(a), Tail(b))
KeyBefore(e, f) == CodesBefore(Ascii(toLowerCase(e.key)), Ascii(toLowerCase(f.key)))
TaggedPairs(obj) ==
    LET idx == SelectSeq([n \in DOMAIN obj |-> n], LAMBDA n : n \in Tagged(obj))
    IN [m \in DOMAIN idx |-> [key |-> obj[idx[m]].key,
                              val |-> hbEncodeValue(obj[idx[m]].val).type]]
C25_AoTypesSorted ==
    \A i \in Calls :
        (Returned(i) /\ "ao-types" \in DOMAIN hbOut[i].value.headers) =>
        hbOut[i].value.headers["ao-types"][1].v
            = AoTypes(SortSeq(TaggedPairs(hbObj[i]), KeyBefore))

(* C11: for a non-empty array of encodable values hbEncodeValue returns the
   tag `list` and a comma-joined string whose members, split at the commas,
   are as many as the elements of the array. *)
RECURSIVE CountChar(_, _)
CountChar(s, c) ==
    IF s = "" THEN 0
    ELSE (IF CharAt(s, 1) = c THEN 1 ELSE 0) + CountChar(SubSeq(s, 2, Len(s)), c)
Members(s) == CountChar(s, ",") + 1
Lists(obj) ==
    {n \in DOMAIN obj : /\ typeOf(obj[n].val) = "array"
                        /\ Len(obj[n].val.elems) > 0
                        /\ CanEncode(obj[n].val)}
C11_ListRoundTrip ==
    \A i \in Calls : Returned(i) =>
        \A n \in Lists(hbObj[i]) :
            /\ hbEncodeValue(hbObj[i][n].val).type = Str("list")
            /\ Members(hbEncodeValue(hbObj[i][n].val).encoded.v) = Len(hbObj[i][n].val.elems)

(* C17: encoding a value that is neither bytes, string, array, number nor
   symbol (a boolean, say), at top level or as a list element, fails with
   the typed error ENCODING_UNSUPPORTED_VALUE, and the failure ends the
   whole call, which returns no headers and no body. *)
Unsupported(value) == typeOf(value) \in {"boolean", "bigint", "function"}
HasUnsupported(obj) ==
    \E n \in DOMAIN obj :
        \/ Unsupported(obj[n].val)
        \/ /\ typeOf(obj[n].val) = "array"
           /\ \E j \in DOMAIN obj[n].val.elems : Unsupported(obj[n].val.elems[j])
C17_UnsupportedValue ==
    \A i \in Calls :
        (hbPc[i] # "idle" /\ HasUnsupported(hbObj[i])) =>
            /\ hbPc[i] = "done"
            /\ hbOut[i].kind = "throw"
            /\ hbOut[i].code = "ENCODING_UNSUPPORTED_VALUE"
            /\ hbBuilt[i] = NoBuilt

----------------------------------------------------------------------------
(* toANS104Request(fields) *)

excludeList ==
    {"target", "anchor", "data", "data-protocol", "variant", "dryrun", "type", "path", "method"}
Unwrap(v) == IF typeOf(v) = "string" THEN v.v ELSE v
Nullish(v, d) == IF v = Undefined \/ v = Null THEN d ELSE v
ObjOmit(o, ks) == SelectSeq(o, LAMBDA e : ~(e.key \in ks))
RECURSIVE dynamicTags(_)
dynamicTags(rest) ==
    IF rest = <<>> THEN <<>>
    ELSE LET tag == [name |-> Head(rest).key, value |-> String(Head(rest).val)]
         IN (IF ~(toLowerCase(Head(rest).key) \in excludeList) THEN <<tag>> ELSE <<>>)
            \o <<tag>> \o dynamicTags(Tail(rest))
toANS104Request(fields) ==
    LET Default(k) == IF ObjGet(fields, k) = Undefined THEN Str("") ELSE ObjGet(fields, k)
        rest == ObjOmit(fields, {"target", "anchor", "data", "Type", "Variant"})
        tags == dynamicTags(rest)
                \o << [name |-> "Data-Protocol", value |-> "ao"],
                      [name |-> "Type",
                       value |-> Unwrap(Nullish(ObjGet(fields, "Type"), Str("Message")))],
                      [name |-> "Variant",
                       value |-> Unwrap(Nullish(ObjGet(fields, "Variant"), Str("ao.N.1")))] >>
    IN [ headers |-> ("Content-Type" :> Text("application/ans104"))
                      @@ ("codec-device" :> Text("ans104@1.0")),
         item    |-> [ target |-> Unwrap(Nullish(Default("target"), Str(""))),
                       anchor |-> Unwrap(Nullish(Default("anchor"), Str(""))),
                       tags   |-> tags,
                       data   |-> Unwrap(Nullish(Default("data"), Str(""))) ] ]

(* toANS104Request called on its own, on every Field Map of at most
   MaxFields fields over ItemKeys *)
MaxFields == 2
ItemKeys ==
    { "target", "Target", "anchor", "data", "Data", "Type", "type", "Variant", "variant",
      "data-protocol", "Data-Protocol", "dryrun", "path", "method", "Action", "X-Custom" }
ItemValues(k) ==
    IF k \in {"Type", "Variant"} THEN {Str("v")} ELSE {Str("v"), Num("7", TRUE)}
ItemEntries == UNION {{Field(k, v) : v \in ItemValues(k)} : k \in ItemKeys}
ItemFieldMaps ==
    { f \in UNION {[1..n -> ItemEntries] : n \in 0..MaxFields} :
        \A a, b \in DOMAIN f : a # b => f[a].key # f[b].key }

CallToANS104Request ==
    /\ ans104Request = Pending
    /\ ans104Request' =
          IF itemFields = Undefined \/ itemFields = Null
          THEN Throw("ValidationError", "VALIDATION_MISSING_FIELDS")
          ELSE Return(toANS104Request(itemFields.entries))
    /\ UNCHANGED <<itemFields, signVars, rateVars, hbVars, reqVars, dispVars, initVars, shaVars, pairVars>>

InitItem ==
    /\ \/ itemFields \in {Undefined, Null}
       \/ \E f \in ItemFieldMaps : itemFields = Pojo(f)
    /\ ans104Request = Pending
    /\ SignIdle /\ SIG_CONFIG = Undefined /\ RateIdle /\ HBIdle /\ ReqIdle /\ DispIdle /\ InitIdle /\ ShaIdle /\ PairIdle
NextItem == CallToANS104Request
SpecItem == InitItem /\ [][NextItem]_vars

(* C12: no input field whose lower-cased name is reserved becomes a tag;
   the only tags named Data-Protocol, Type and Variant are the three fixed
   ones at the end of the list. *)
Reserved ==
    {"target", "anchor", "data", "data-protocol", "variant", "dryrun", "type", "path", "method"}
ItemReturned == ans104Request.kind = "return"
DynamicTags == SubSeq(ans104Request.value.item.tags, 1,
                      Len(ans104Request.value.item.tags) - 3)
C12_ReservedNotTags ==
    ItemReturned =>
        \A i \in DOMAIN DynamicTags : ~(toLowerCase(DynamicTags[i].name) \in Reserved)

(* C13: the tag list is one {name, String(value)} tag per non-reserved
   input field, in input order, none twice, followed by Data-Protocol=ao,
   Type=<Type or Message>, Variant=<Variant or ao.N.1>. *)
NonReserved(f) == SelectSeq(f, LAMBDA e : ~(toLowerCase(e.key) \in Reserved))
TagNames(tags) == [i \in DOMAIN tags |-> tags[i].name]
TagValues(tags) == [i \in DOMAIN tags |-> tags[i].value]
ExpectedNames(f) ==
    [i \in DOMAIN NonReserved(f) |-> NonReserved(f)[i].key]
    \o <<"Data-Protocol", "Type", "Variant">>
ExpectedValues(f) ==
    [i \in DOMAIN NonReserved(f) |-> String(NonReserved(f)[i].val)]
    \o << "ao",
          IF ObjHas(f, "Type") THEN ObjGet(f, "Type").v ELSE "Message",
          IF ObjHas(f, "Variant") THEN ObjGet(f, "Variant").v ELSE "ao.N.1" >>
C13_TagList ==
    ItemReturned =>
        /\ TagNames(ans104Request.value.item.tags) = ExpectedNames(itemFields.entries)
        /\ TagValues(ans104Request.value.item.tags) = ExpectedValues(itemFields.entries)

----------------------------------------------------------------------------
(* request(deps)(args) *)

SigningFormatType == {"ans104", "httpsig"}
ANS_104  == "ans104"
HTTP_SIG == "httpsig"

(* joinURL({url, path}) for a url without a path of its own *)
RECURSIVE joinURL(_, _)
joinURL(url, path) ==
    IF path = "" THEN url
    ELSE IF CharAt(path, 1) = "/" THEN joinURL(url, SubSeq(path, 2, Len(path)))
    ELSE url \o "/" \o path

(* !value for the values a request argument holds *)
Falsy(v) == v = Undefined \/ v = Null \/ v = Str("")

(* validateRequest(args) *)
validateRequest(a) ==
    IF a = Undefined \/ a = Null
    THEN Throw("ValidationError", "VALIDATION_MISSING_PATH")
    ELSE IF Falsy(ObjGet(a.entries, "path"))
    THEN Throw("ValidationError", "VALIDATION_MISSING_PATH")
    ELSE IF ~Falsy(ObjGet(a.entries, "signing-format"))
            /\ ~(Unwrap(ObjGet(a.entries, "signing-format")) \in SigningFormatType)
    THEN Throw("ValidationError", "VALIDATION_INVALID_FORMAT")
    ELSE Return(Undefined)

signingFormat(a) == Unwrap(Nullish(ObjGet(a, "signing-format"), Str(HTTP_SIG)))
requestURL(d, a) == joinURL(d.url, Unwrap(ObjGet(a, "path")))
requestMethodMutant(a) == Unwrap(Nullish(ObjGet(a, "method"), Str("GET")))
requestMethod(a) ==
    IF signingFormat(a) = ANS_104 THEN "POST"
    ELSE Unwrap(Nullish(ObjGet(a, "method"), Str("GET")))
remainingFields(a) ==
    LET rest == ObjOmit(a, {"path", "method"})
    IN IF Falsy(ObjGet(rest, "signing-format"))
       THEN ObjSet(rest, "signing-format", Str(signingFormat(a)))
       ELSE rest

(* The arguments of fetch(requestURL, httpRequestArgs) *)
httpRequestArgs(d, a, httpRequest) ==
    [ url     |-> requestURL(d, a),
      method  |-> requestMethod(a),
      headers |-> httpRequest.headers,
      body    |-> IF requestMethod(a) # "GET" THEN httpRequest.body ELSE Undefined ]

FormattingFailed == Throw("RequestError", "REQUEST_FORMATTING_FAILED")
HttpFailed       == Throw("RequestError", "REQUEST_HTTP_FAILED")

(* Request arguments and dependencies *)
BaseUrl == "https://forward.computer"
Deps == [signer : BOOLEAN, url : {BaseUrl}]
RequestArgs ==
    << Undefined,
      Pojo(<<Field("method", Str("POST"))>>),
      Pojo(<<Field("path", Str("/x")), Field("signing-format", Str("json"))>>),
      Pojo(<<Field("path", Str("/x"))>>),
      Pojo(<<Field("path", Str("/x")), Field("method", Str("POST")), Field("Action", Str("Test"))>>),
      Pojo(<<Field("path", Str("/x")), Field("method", Str("POST")), Field("data", Str("a\nb"))>>),
      Pojo(<<Field("path", Str("x")), Field("method", Str("PUT")), Field("body", Str("a\nb"))>>),
      Pojo(<<Field("path", Str("/x")), Field("method", Str("POST")),
        Field("a", Str("1\n")), Field("b", Str("2\n"))>>),
      Pojo(<<Field("path", Str("/x")), Field("method", Str("GET")), Field("data", Str("a\nb"))>>),
      Pojo(<<Field("path", Str("/x")), Field("signing-format", Str("httpsig")),
        Field("method", Str("POST")), Field("data", Str("a\nb")), Field("Action", Str("Test"))>>),
      Pojo(<<Field("path", Str("/x")), Field("signing-format", Str("ans104")),
        Field("data", Str("d1")), Field("Action", Str("Test"))>>),
      Pojo(<<Field("path", Str("/x")), Field("signing-format", Str("ans104")),
        Field("method", Str("GET")), Field("data", Str("d2")), Field("target", Str(""))>>),
      Pojo(<<Field("path", Str("/x")), Field("signing-format", Str(""))>>),
      Pojo(<<Field("path", Str(""))>>) >>

(* request: from the call to its first await that leaves the function, or
   to its end *)
CallFetch(d, a, httpRequest) ==
    /\ fetched' = httpRequestArgs(d, a.entries, httpRequest)
    /\ reqPc' = "fetching"
    /\ UNCHANGED <<reqOut, signVars>>
CallAns104(d, a, unsigned) ==
    /\ unsignedRequest' = unsigned
    /\ IF d.signer
       THEN /\ wrapper' = "ans104" /\ item' = unsigned.item /\ pc' = "signer"
            /\ reqPc' = "signing"
            /\ UNCHANGED <<fetched, reqOut, sigInput, sigArgs, createCalled, createCount,
                           unsignedBytes, httpSig, payload, res, isValid, out, SIG_CONFIG>>
       ELSE CallFetch(d, a, [headers |-> unsigned.headers, body |-> unsigned.item])
    /\ UNCHANGED hashCache
CallHttpSig(d, a, hb) ==
    /\ hashCache' = hb.cache
    /\ unsignedRequest' = hb.result
    /\ IF hb.result = Null \/ hb.result = Undefined
       THEN /\ reqOut' = FormattingFailed /\ reqPc' = "done"
            /\ UNCHANGED <<fetched, signVars>>
       ELSE IF d.signer
       THEN /\ wrapper' = "httpsig" /\ pc' = "signer"
            /\ sigInput' = [headers |-> hb.result.headers, includePath |-> FALSE]
            /\ sigArgs' = toSigBaseArgs(requestURL(d, a.entries), requestMethod(a.entries),
                                        hb.result.headers, FALSE)
            /\ reqPc' = "signing"
            /\ UNCHANGED <<fetched, reqOut, item, createCalled, createCount, unsignedBytes,
                           httpSig, payload, res, isValid, out, SIG_CONFIG>>
       ELSE CallFetch(d, a, [headers |-> hb.result.headers, body |-> hb.result.body])
(* no case of the switch matches: httpRequest is still null when its
   headers are read inside the second try *)
CallUnprepared ==
    /\ reqOut' = HttpFailed /\ reqPc' = "done"
    /\ UNCHANGED <<unsignedRequest, fetched, signVars, hashCache>>
CallInvalid(error) ==
    /\ reqOut' = error /\ reqPc' = "done"
    /\ UNCHANGED <<unsignedRequest, fetched, signVars, hashCache>>
CallValidated(d, a, validation) ==
    IF validation.kind = "throw" THEN CallInvalid(validation)
    ELSE IF signingFormat(a.entries) = ANS_104
    THEN CallAns104(d, a, toANS104Request(remainingFields(a.entries)))
    ELSE IF signingFormat(a.entries) # HTTP_SIG
    THEN CallUnprepared
    ELSE CallHttpSig(d, a, IF CanLift(remainingFields(a.entries))
                           THEN NestedRequest(remainingFields(a.entries), hashCache)
                           ELSE [result |-> Null, cache |-> hashCache])
CallRequest(d, a) ==
    /\ reqPc = "idle" /\ pc = "idle"
    /\ deps' = d /\ args' = a
    /\ CallValidated(d, a, validateRequest(a))
    /\ UNCHANGED <<itemVars, dispVars, initVars, shaVars, pairVars, rateVars, hbObj, hbPc, flattened, pending, headerKeys, bodyKeys, hbBuilt,
                   hashing, hbOut>>

(* verifySig(message) of helpers/http-sig.ts, whose code is not part of the
   sources: the verdict it reaches, handed back either as the boolean itself
   or as a promise of it (its other call is awaited). A promise is truthy. *)
VerifySigResults == [verdict : BOOLEAN, promise : BOOLEAN]
NotNegated(r) == r.promise \/ r.verdict

(* request: the signing wrapper has settled; on to fetch. `valid` is whether
   `!verifySig(signedRequest)` lets the signed httpsig request through. *)
SigningSettles(valid) ==
    /\ reqPc = "signing" /\ pc = "done"
    /\ CallEnds
    /\ IF out.kind = "throw"
       THEN /\ reqOut' = FormattingFailed /\ reqPc' = "done" /\ UNCHANGED fetched
       ELSE IF signingFormat(args.entries) = ANS_104
       THEN /\ fetched' = httpRequestArgs(deps, args.entries,
                              [headers |-> unsignedRequest.headers, body |-> out.value.raw])
            /\ reqPc' = "fetching" /\ UNCHANGED reqOut
       ELSE IF ~valid
       THEN /\ reqOut' = FormattingFailed /\ reqPc' = "done" /\ UNCHANGED fetched
       ELSE LET signedRequest == out.value
                httpRequest   == [headers |-> signedRequest.headers, body |-> Undefined]
            IN /\ fetched' = httpRequestArgs(deps, args.entries, httpRequest)
               /\ reqPc' = "fetching" /\ UNCHANGED reqOut
    /\ UNCHANGED <<deps, args, unsignedRequest, rateVars, hbVars, itemVars, dispVars, initVars, shaVars, pairVars>>

(* request: fetch resolves with a response; a response carrying both
   signature headers is verified *)
Responses == [ok : BOOLEAN, isHttpSigResponse : BOOLEAN]
FetchResolves(response, validSig) ==
    /\ reqPc = "fetching"
    /\ reqPc' = "done"
    /\ reqOut' = IF response.isHttpSigResponse /\ ~validSig THEN HttpFailed
                 ELSE Return(response)
    /\ UNCHANGED <<deps, args, unsignedRequest, fetched, signVars, rateVars, hbVars, itemVars, dispVars, initVars, shaVars, pairVars>>

(* request: fetch rejects *)
FetchRejectsMutant ==
    /\ reqPc = "fetching"
    /\ reqPc' = "idle" /\ reqOut' = Pending
    /\ UNCHANGED <<deps, args, unsignedRequest, fetched, signVars, rateVars, hbVars, itemVars, dispVars, initVars, shaVars, pairVars>>
FetchRejects ==
    /\ reqPc = "fetching"
    /\ reqPc' = "done" /\ reqOut' = HttpFailed
    /\ UNCHANGED <<deps, args, unsignedRequest, fetched, signVars, rateVars, hbVars, itemVars, dispVars, initVars, shaVars, pairVars>>

InitReq == SignIdle /\ SIG_CONFIG = Undefined /\ RateIdle /\ HBIdle /\ ReqIdle /\ ItemIdle /\ DispIdle /\ InitIdle /\ ShaIdle /\ PairIdle
NextReq ==
    \/ \E d \in Deps, n \in DOMAIN RequestArgs : CallRequest(d, RequestArgs[n])
    \/ /\ reqPc = "signing"
       /\ \/ \E inj \in Injected : SignerInvokesCreate(inj)
          \/ \E r \in SignerResults(payload) : SignerResolves(r)
          \/ SignerRejects
       /\ UNCHANGED <<rateVars, hbVars, reqVars, itemVars, dispVars, initVars, shaVars, pairVars>>
    \/ \E r \in VerifySigResults : SigningSettles(NotNegated(r))
    \/ \E response \in Responses, validSig \in BOOLEAN : FetchResolves(response, validSig)
    \/ FetchRejects
SpecReq == InitReq /\ [][NextReq]_vars

(* C3: for a request in httpsig format with a signer configured and a
   method other than GET, the body handed to fetch is the body toHBRequest
   built from the same fields. *)
SignedHttpSig ==
    /\ fetched # Undefined
    /\ deps.signer
    /\ signingFormat(args.entries) = HTTP_SIG
    /\ requestMethod(args.entries) # "GET"
C3_BodyKept == SignedHttpSig => fetched.body = unsignedRequest.body
(* without a signer the body toHBRequest built is the one handed to fetch *)
C3_BodyKeptUnsigned ==
    (/\ fetched # Undefined /\ ~deps.signer
     /\ signingFormat(args.entries) = HTTP_SIG
     /\ requestMethod(args.entries) # "GET") => fetched.body = unsignedRequest.body

(* C19: when method is left out of the arguments of request() the outbound
   HTTP method is GET, whichever the signing format; when signing-format is
   left out the request is prepared in httpsig format. *)
Omitted(name) == ~ObjHas(args.entries, name)
Outbound == fetched # Undefined
Prepared == unsignedRequest # Undefined /\ unsignedRequest # Null
AsHttpSig ==
    /\ "body" \in DOMAIN unsignedRequest
    /\ ~("item" \in DOMAIN unsignedRequest)
    /\ reqPc = "signing" => wrapper = "httpsig"
FormatDefault == (Prepared /\ Omitted("signing-format")) => AsHttpSig
AsksAns104 == ObjGet(args.entries, "signing-format") = Str(ANS_104)
C19_WitnessDefaults ==
    /\ Outbound /\ Omitted("method") /\ Omitted("signing-format")
    /\ fetched.method = "GET" /\ deps.signer /\ "Signature" \in DOMAIN fetched.headers

(* C21: within one call of request() the signer is invoked at most once and
   fetch is invoked at most once; after a failure of signing, of the local
   verification or of the transport the call ends with an error and makes
   no second signing or sending attempt; fetch is never invoked after a
   signing or verification failure. *)
Position(p) == CASE p = "idle" -> 0 [] p = "signing" -> 1 [] p = "fetching" -> 2 [] p = "done" -> 3
SignerInvoked == pc = "idle" /\ pc' = "signer"
FetchInvoked == fetched' # fetched
C21_WitnessSigning ==
    /\ reqPc = "done" /\ reqOut = FormattingFailed /\ deps.signer
    /\ unsignedRequest # Undefined /\ unsignedRequest # Null /\ fetched = Undefined

(* C22: request() called without an arguments object, with a missing or
   empty path, or with a signing-format that is neither ans104 nor httpsig
   fails with a ValidationError (VALIDATION_MISSING_PATH or
   VALIDATION_INVALID_FORMAT) before anything is encoded, signed or sent; so
   every request that reaches the transport was prepared in one of the two
   formats. *)
Called == reqPc # "idle"
NoArguments == args = Undefined \/ args = Null
NoPath == ~ObjHas(args.entries, "path") \/ ObjGet(args.entries, "path") = Str("")
NoSuchFormat ==
    /\ ObjHas(args.entries, "signing-format")
    /\ ~(ObjGet(args.entries, "signing-format") \in {Str(ANS_104), Str(HTTP_SIG)})
NothingDone ==
    /\ reqPc = "done"
    /\ unsignedRequest = Undefined /\ fetched = Undefined
    /\ wrapper = "none" /\ pc = "idle" /\ hashCache = <<>>
RejectedWith(codes) ==
    /\ reqOut.kind = "throw" /\ reqOut.name = "ValidationError" /\ reqOut.code \in codes
    /\ NothingDone
PreparedInOneFormat ==
    Outbound => \/ "item" \in DOMAIN unsignedRequest /\ signingFormat(args.entries) = ANS_104
                \/ "body" \in DOMAIN unsignedRequest /\ signingFormat(args.entries) = HTTP_SIG
C22_Validation ==
    Called =>
        /\ IF NoArguments \/ NoPath THEN RejectedWith({"VALIDATION_MISSING_PATH"})
           ELSE NoSuchFormat => RejectedWith({"VALIDATION_INVALID_FORMAT"})
        /\ PreparedInOneFormat

(* C26: a request in ans104 format never reaches the transport with a body
   other than the raw bytes of the signed data item; when no signer is
   configured request() fails and the unsigned logical item is not sent. *)
Ans104Asked == args # Undefined /\ isPojo(args) /\ ObjHas(args.entries, "path")
                  /\ signingFormat(args.entries) = ANS_104
C26_SignedRawOnly ==
    Ans104Asked =>
        /\ fetched # Undefined =>
              /\ deps.signer
              /\ fetched.body # unsignedRequest.item
        /\ (~deps.signer /\ reqPc = "done") => reqOut.kind = "throw"

(* C28: on the httpsig path with a signer the local check of the signed
   request is a real gate: whenever the verification of the signed request
   yields invalid, request() fails and the transport is not invoked with
   that request; and a response carrying both signature headers is returned
   to the caller only if its verification yields valid. *)
HttpSigSigned ==
    /\ reqPc = "signing" /\ pc = "done" /\ out.kind = "return"
    /\ signingFormat(args.entries) = HTTP_SIG
C28_RequestGate ==
    \A r \in VerifySigResults :
        (HttpSigSigned /\ ~r.verdict /\ SigningSettles(NotNegated(r))) =>
            (reqOut'.kind = "throw" /\ fetched' = Undefined)
C28_ResponseGate ==
    \A response \in Responses, validSig \in BOOLEAN :
        (FetchResolves(response, validSig) /\ response.isHttpSigResponse /\ ~validSig) =>
            reqOut'.kind = "throw"
C28_VerificationGate == [][C28_RequestGate /\ C28_ResponseGate]_vars
C28_ResponseGateOnly == [][C28_ResponseGate]_vars

----------------------------------------------------------------------------
(* createSigner(jwk) and createSigner(arweaveWallet): one call
   signer(create, kind) of the signer either of them returns *)

SignerSources == {"jwk", "wallet"}
SignerKeys    == {"k1", "k2", "k3"}
SignerKinds   == {"ans104", "httpsig", "json", "ANS-104", ""}
addressOf(key) == "address-of-" \o key

(* The argument objects the signer functions hand to create() *)
CreateOptions(type, publicKey, address, alg, passthrough) ==
    [type |-> type, publicKey |-> publicKey, address |-> address, alg |-> alg,
     passthrough |-> passthrough]
(* What create() may resolve with: bytes to sign, the logical fields of the
   passthrough path, or something that is neither *)
PassedThrough == [data |-> Str("d"), tags |-> <<>>, target |-> Str(""), anchor |-> Str("")]
SignableBytes == {U8(<<1>>), U8(<<2>>), U8(<<1, 2>>)}
CreateResults == SignableBytes \cup {Str("x"), PassedThrough, Undefined}
IsUint8Array(v) == v \in SignableBytes
(* What the wallet's signDataItem / signMessage may resolve with *)
WalletViews == {U8(<<7>>), U8(<<8>>)}
(* createSign(hash).update(data).sign({key, padding}) *)
createSign(hash, key, data) == [hash |-> hash, key |-> key, signed |-> data]

(* signer(create, kind): the dispatch, and the function it reaches up to
   its first await *)
JwkSignerCalled(key, fn, alg) ==
    /\ signerFn' = fn
    /\ signerLog' = <<"create">>
    /\ createArg' = CreateOptions(1, key, Undefined, alg, Undefined)
    /\ signerPc' = "create"
    /\ signerOut' = Pending
WalletSignerCalled(fn) ==
    /\ signerFn' = fn
    /\ signerLog' = <<"connect">>
    /\ createArg' = Undefined
    /\ signerPc' = "connect"
    /\ signerOut' = Pending
UnknownKind(error) ==
    /\ signerFn' = "none"
    /\ signerLog' = <<>>
    /\ createArg' = Undefined
    /\ signerPc' = "done"
    /\ signerOut' = error
CallSigner(src, key, kind) ==
    /\ signerPc = "idle"
    /\ signerSrc' = src /\ signerKey' = key /\ signerKind' = kind
    /\ IF src = "jwk"
       THEN IF kind = ANS_104 THEN JwkSignerCalled(key, "dataItemSigner", "rsa-v1_5-sha256")
            ELSE IF kind = HTTP_SIG THEN JwkSignerCalled(key, "httpSigner", "rsa-pss-sha512")
            ELSE UnknownKind(Throw("CryptographicError", "CRYPTO_SIGNER_TYPE_UNKNOWN"))
       ELSE IF kind = ANS_104 THEN WalletSignerCalled("dataItemSigner")
            ELSE IF kind = HTTP_SIG THEN WalletSignerCalled("httpSigner")
            ELSE UnknownKind(Throw("Error", NoCode))
    /\ UNCHANGED <<signVars, rateVars, hbVars, reqVars, itemVars, initVars, shaVars, pairVars>>

(* arweaveWallet.connect(permissions) resolves *)
WalletConnects ==
    /\ signerPc = "connect"
    /\ IF signerFn = "dataItemSigner"
       THEN /\ signerLog' = Append(signerLog, "create")
            /\ createArg' = CreateOptions(Undefined, Undefined, Undefined, "rsa-v1_5-sha256", TRUE)
            /\ signerPc' = "create"
       ELSE /\ signerLog' = signerLog \o <<"getActivePublicKey", "getActiveAddress">>
            /\ signerPc' = "keys"
            /\ UNCHANGED createArg
    /\ UNCHANGED <<signerSrc, signerKey, signerKind, signerFn, signerOut>>
    /\ UNCHANGED <<signVars, rateVars, hbVars, reqVars, itemVars, initVars, shaVars, pairVars>>

(* getActivePublicKey() and getActiveAddress() resolve *)
WalletGivesKeys ==
    /\ signerPc = "keys"
    /\ signerLog' = Append(signerLog, "create")
    /\ createArg' = CreateOptions(1, signerKey, addressOf(signerKey), "rsa-pss-sha512", Undefined)
    /\ signerPc' = "create"
    /\ UNCHANGED <<signerSrc, signerKey, signerKind, signerFn, signerOut>>
    /\ UNCHANGED <<signVars, rateVars, hbVars, reqVars, itemVars, initVars, shaVars, pairVars>>

(* create() resolves with v *)
JwkSigns(hash, v) ==
    IF ~IsUint8Array(v)
    THEN /\ signerOut' = Throw("CryptographicError", "CRYPTO_INVALID_SIGNATURE")
         /\ signerPc' = "done" /\ UNCHANGED signerLog
    ELSE /\ signerLog' = Append(signerLog, "createSign")
         /\ signerOut' = Return([signature |-> createSign(hash, signerKey, v),
                                 address |-> addressOf(signerKey)])
         /\ signerPc' = "done"
WalletAsked(v, call) ==
    IF call = "signDataItem" /\ v = Undefined
    THEN /\ signerOut' = Throw("TypeError", NoCode)
         /\ signerPc' = "done" /\ UNCHANGED signerLog
    ELSE /\ signerLog' = Append(signerLog, call)
         /\ signerPc' = "wallet" /\ UNCHANGED signerOut
CreateResolves(v) ==
    /\ signerPc = "create"
    /\ IF signerSrc = "jwk"
       THEN JwkSigns(IF signerFn = "dataItemSigner" THEN "sha256" ELSE "sha512", v)
       ELSE WalletAsked(v, IF signerFn = "dataItemSigner" THEN "signDataItem"
                           ELSE "signMessage")
    /\ UNCHANGED <<signerSrc, signerKey, signerKind, signerFn, createArg>>
    /\ UNCHANGED <<signVars, rateVars, hbVars, reqVars, itemVars, initVars, shaVars, pairVars>>

(* signDataItem() / signMessage() resolves with view *)
WalletSigns(view) ==
    /\ signerPc = "wallet"
    /\ IF signerFn = "dataItemSigner"
       THEN /\ signerLog' = Append(signerLog, "getRawAndId")
            /\ signerOut' = Return([id |-> [sha256 |-> view], raw |-> view])
       ELSE /\ signerOut' = Return([signature |-> view, address |-> addressOf(signerKey)])
            /\ UNCHANGED signerLog
    /\ signerPc' = "done"
    /\ UNCHANGED <<signerSrc, signerKey, signerKind, signerFn, createArg>>
    /\ UNCHANGED <<signVars, rateVars, hbVars, reqVars, itemVars, initVars, shaVars, pairVars>>

(* whatever the signer function awaits rejects *)
AwaitedRejects ==
    /\ signerPc \in {"connect", "keys", "create", "wallet"}
    /\ signerOut' = Throw("Error", NoCode)
    /\ signerPc' = "done"
    /\ UNCHANGED <<signerSrc, signerKey, signerKind, signerFn, signerLog, createArg>>
    /\ UNCHANGED <<signVars, rateVars, hbVars, reqVars, itemVars, initVars, shaVars, pairVars>>

InitSigner ==
    /\ DispIdle /\ SignIdle /\ SIG_CONFIG = Undefined /\ RateIdle /\ HBIdle /\ ReqIdle
    /\ ItemIdle /\ InitIdle /\ ShaIdle /\ PairIdle
NextSigner ==
    \/ \E src \in SignerSources, key \in SignerKeys, kind \in SignerKinds :
          CallSigner(src, key, kind)
    \/ WalletConnects
    \/ WalletGivesKeys
    \/ \E v \in CreateResults : CreateResolves(v)
    \/ \E view \in WalletViews : WalletSigns(view)
    \/ AwaitedRejects
SpecSigner == InitSigner /\ [][NextSigner]_vars

(* C14: a signer built by createSigner, from a JWK or from a wallet,
   dispatches ans104 to its data-item signing function and httpsig to its
   HTTP signing function, and for any other selector fails with
   CRYPTO_SIGNER_TYPE_UNKNOWN having called neither create, nor the wallet,
   nor a signing primitive. *)
SignerCalled == signerPc # "idle"
C14_Dispatch ==
    SignerCalled =>
        /\ signerKind = ANS_104 => signerFn = "dataItemSigner"
        /\ signerKind = HTTP_SIG => signerFn = "httpSigner"
        /\ ~(signerKind \in SigningFormatType) =>
              /\ signerOut = Throw("CryptographicError", "CRYPTO_SIGNER_TYPE_UNKNOWN")
              /\ signerLog = <<>>

----------------------------------------------------------------------------
(* init(deps), and request() through the object it returns *)

DEFAULT_URL == "https://forward.computer"
MIN_RSA_KEY_SIZE == 2048
MAX_RSA_KEY_SIZE == 8192

(* JWKs: key type, modulus, and the size of the decoded modulus in bits *)
Jwks ==
    { [kty |-> "RSA", n |-> "a", keySize |-> 2048],
      [kty |-> "RSA", n |-> "b", keySize |-> 1024],
      [kty |-> "EC",  n |-> "b", keySize |-> 2048] }
SuppliedSigner == [supplied |-> TRUE]
Dependencies ==
    {Null} \cup [ jwk    : Jwks \cup {Undefined},
                  signer : {Undefined, SuppliedSigner},
                  url    : {Undefined, Str("http://localhost:8734")} ]

(* validateJWK(jwk) for a JWK object that has its string fields *)
validateJWK(jwk) ==
    IF jwk.kty # "RSA" THEN Throw("CryptographicError", "CRYPTO_SIGNER_TYPE_UNKNOWN")
    ELSE IF jwk.keySize < MIN_RSA_KEY_SIZE \/ jwk.keySize > MAX_RSA_KEY_SIZE
    THEN Throw("CryptographicError", "CRYPTO_INVALID_SIGNATURE")
    ELSE Return(Undefined)

(* validateDependencies(deps) *)
validateDependencies(d) ==
    IF d = Null THEN Throw("ValidationError", "VALIDATION_MISSING_DEPENDENCIES")
    ELSE IF d.jwk # Undefined /\ validateJWK(d.jwk).kind = "throw"
    THEN Throw("ValidationError", "VALIDATION_INVALID_JWK")
    ELSE Return(Undefined)

(* resolvedDeps: {url: DEFAULT_URL, ...deps, signer} *)
resolvedDepsMutant(d, from) ==
    [signer |-> TRUE, url |-> Unwrap(Nullish(d.url, Str(DEFAULT_URL)))]
resolvedDeps(d, from) ==
    [signer |-> from # "none", url |-> Unwrap(Nullish(d.url, Str(DEFAULT_URL)))]

InitFails(error) ==
    /\ initOut' = error /\ deps' = Undefined
    /\ signerFrom' = "none" /\ created' = FALSE
InitReturns(d, from) ==
    /\ initOut' = Return(Undefined) /\ deps' = resolvedDeps(d, from)
    /\ signerFrom' = from /\ created' = (from = "jwk")

(* createSigner(deps.jwk), called by init: the rate limiter is asked first *)
InitCreatesSigner(d) ==
    /\ checkLimit("signer-" \o d.jwk.n)
    /\ IF lastCheck'.result = "throw" THEN InitFails(lastCheck'.error)
       ELSE InitReturns(d, "jwk")

(* init(deps) *)
InitValidatedMutant(d) ==
    IF d.jwk # Undefined THEN InitCreatesSigner(d)
    ELSE IF d.signer # Undefined THEN InitReturns(d, "supplied") /\ UNCHANGED rateVars
    ELSE InitReturns(d, "none") /\ UNCHANGED rateVars
InitValidated(d) ==
    IF d.signer # Undefined THEN InitReturns(d, "supplied") /\ UNCHANGED rateVars
    ELSE IF d.jwk # Undefined THEN InitCreatesSigner(d)
    ELSE InitReturns(d, "none") /\ UNCHANGED rateVars
CallInit(d) ==
    /\ reqPc = "idle"
    /\ initDeps' = d
    /\ IF validateDependencies(d).kind = "throw"
       THEN InitFails(validateDependencies(d)) /\ UNCHANGED rateVars
       ELSE InitValidated(d)
    /\ UNCHANGED <<signVars, hbVars, args, reqPc, unsignedRequest, fetched, reqOut, itemVars,
                   dispVars, shaVars, pairVars>>

(* aoCore.request(args) on the object the last init returned; the requests
   followed are: the defaults, POST and GET with a body field, ans104 *)
AoCoreRequests == {4, 6, 9, 11}
CallAoCoreRequest(a) ==
    /\ initOut.kind = "return"
    /\ CallRequest(deps, a)

InitAoCore ==
    /\ InitIdle /\ SignIdle /\ SIG_CONFIG = Undefined /\ RateIdle /\ HBIdle /\ ReqIdle
    /\ ItemIdle /\ DispIdle /\ ShaIdle /\ PairIdle
NextAoCore ==
    \/ \E d \in Dependencies : CallInit(d)
    \/ \E n \in AoCoreRequests : CallAoCoreRequest(RequestArgs[n])
    \/ /\ reqPc = "signing"
       /\ \/ \E inj \in Injected : SignerInvokesCreate(inj)
          \/ \E r \in SignerResults(payload) : SignerResolves(r)
          \/ SignerRejects
       /\ UNCHANGED <<rateVars, hbVars, reqVars, itemVars, dispVars, initVars, shaVars, pairVars>>
    \/ \E r \in VerifySigResults : SigningSettles(NotNegated(r))
    \/ \E response \in Responses, validSig \in BOOLEAN : FetchResolves(response, validSig)
    \/ FetchRejects
SpecAoCore == InitAoCore /\ [][NextAoCore]_vars

(* C30: every typed error raised by init, createSigner, request and the
   signing wrappers carries a code that is a member of the ErrorCode
   enumeration; in particular init given a malformed JWK fails with an
   error whose code is a defined ErrorCode value. *)
TypedErrors ==
    {"AOCoreError", "ValidationError", "CryptographicError", "RequestError", "EncodingError"}
Raised == {o \in {initOut, reqOut, out} : o.kind = "throw"}
C30_CodeDefined ==
    \A o \in Raised : o.name \in TypedErrors => o.code \in ErrorCode

(* C18: init called with both a JWK and a Signer succeeds, every request made
   through the returned object is signed by the supplied Signer, and no
   signer is built from the JWK. *)
InitCalled == initOut # Pending
BothGiven ==
    InitCalled /\ initDeps # Null /\ initDeps.jwk # Undefined /\ initDeps.signer # Undefined
SignedOutbound ==
    IF signingFormat(args.entries) = ANS_104
    THEN fetched.body # unsignedRequest.item
    ELSE {"Signature", "Signature-Input"} \subseteq DOMAIN fetched.headers
UsesSupplied ==
    /\ initOut = Return(Undefined)
    /\ signerFrom = "supplied" /\ ~created /\ deps.signer
    /\ Outbound => SignedOutbound
OnlyUrl ==
    /\ InitCalled /\ initDeps # Null
    /\ initDeps.jwk = Undefined /\ initDeps.signer = Undefined /\ initDeps.url # Undefined
UnsignedOutbound == Outbound /\ signingFormat(args.entries) = HTTP_SIG
NoSignerInvoked == wrapper = "none" /\ pc = "idle" /\ createCount = 0 /\ res = Undefined
NotSigned ==
    /\ fetched.headers = unsignedRequest.headers
    /\ ~("Signature" \in DOMAIN fetched.headers)
    /\ ~("Signature-Input" \in DOMAIN fetched.headers)
    /\ NoSignerInvoked
C20_Unsigned ==
    OnlyUrl =>
        /\ initOut = Return(Undefined) /\ signerFrom = "none" /\ ~deps.signer
        /\ UnsignedOutbound => (NotSigned /\ fetched.body = unsignedRequest.body)
(* C20, amended: as above for the headers; the body handed to the transport
   is the one toHBRequest produced when the method is not GET, and for a GET
   request no body is handed over, whatever toHBRequest produced. *)
C20_UnsignedBodyUnlessGet ==
    OnlyUrl =>
        /\ initOut = Return(Undefined) /\ signerFrom = "none" /\ ~deps.signer
        /\ UnsignedOutbound =>
              /\ NotSigned
              /\ fetched.body = IF fetched.method = "GET" THEN Undefined
                                ELSE unsignedRequest.body
C20_Witness ==
    /\ OnlyUrl /\ UnsignedOutbound /\ NotSigned
    /\ fetched.method = "POST" /\ fetched.body # Undefined
    /\ fetched.body = unsignedRequest.body
C20_WitnessGet ==
    /\ OnlyUrl /\ UnsignedOutbound /\ fetched.method = "GET"
    /\ unsignedRequest.body # Undefined /\ fetched.body = Undefined

----------------------------------------------------------------------------
(* sha256(data) of utils.ts, called concurrently; the HashCache instance is
   followed with its maxSize field at CacheCap *)

CacheCap == 3
ShaCallers == {1, 2}
ShaInputs ==
    { Text("a"), Text("b"), Text("c"),
      Text("01234567x89abcdef"), Text("01234567y89abcdef") }

CacheKeys(cache) == [i \in DOMAIN cache |-> cache[i].key]
KeySet(cache) == {cache[i].key : i \in DOMAIN cache}
(* the history of insertions and reads: key k was just inserted or read *)
Touch(history, k) == Append(SelectSeq(history, LAMBDA x : x # k), k)
(* the key of `cache` that was inserted or read the longest ago *)
LeastRecent(history, cache) ==
    IF cache = <<>> THEN Undefined
    ELSE SelectSeq(history, LAMBDA x : x \in KeySet(cache))[1]

ShaStart ==
    /\ shaPc = [c \in ShaCallers |-> "idle"]
    /\ shaData = [c \in ShaCallers |-> <<>>]
    /\ shaOut = [c \in ShaCallers |-> Pending]
    /\ recent = <<>> /\ lastOp = Undefined

(* sha256(data) up to `await crypto.subtle.digest`, or to its end on a hit *)
Sha256Hit(c, data, got) ==
    /\ hashCache' = got.cache
    /\ shaOut' = [shaOut EXCEPT ![c] = Return(got.result)]
    /\ recent' = Touch(recent, getKey(data))
    /\ UNCHANGED shaPc
Sha256Miss(c, data) ==
    /\ shaPc' = [shaPc EXCEPT ![c] = "digest"]
    /\ shaOut' = [shaOut EXCEPT ![c] = Pending]
    /\ UNCHANGED <<hashCache, recent>>
CallSha256(c, data) ==
    /\ shaPc[c] = "idle"
    /\ shaData' = [shaData EXCEPT ![c] = data]
    /\ lastOp' = [ op |-> "get", key |-> getKey(data), before |-> hashCache,
                   lru |-> LeastRecent(recent, hashCache) ]
    /\ IF Truthy(HashCacheGet(hashCache, data).result)
       THEN Sha256Hit(c, data, HashCacheGet(hashCache, data))
       ELSE Sha256Miss(c, data)
    /\ UNCHANGED <<hbObj, hbPc, flattened, pending, headerKeys, bodyKeys, hbBuilt, hashing, hbOut>>
    /\ UNCHANGED <<signVars, rateVars, reqVars, itemVars, dispVars, initVars, pairVars>>

(* crypto.subtle.digest resolves: hashCache.set(data, hash); return hash *)
Sha256Digested(c) ==
    /\ shaPc[c] = "digest"
    /\ hashCache' = HashCacheSetAt(hashCache, shaData[c], DIGEST(shaData[c]), CacheCap)
    /\ shaPc' = [shaPc EXCEPT ![c] = "idle"]
    /\ shaOut' = [shaOut EXCEPT ![c] = Return(DIGEST(shaData[c]))]
    /\ lastOp' = [ op |-> "set", key |-> getKey(shaData[c]), before |-> hashCache,
                   lru |-> LeastRecent(recent, hashCache) ]
    /\ recent' = IF getKey(shaData[c]) \in KeySet(HashCacheRoom(hashCache, CacheCap))
                 THEN recent
                 ELSE Touch(recent, getKey(shaData[c]))
    /\ UNCHANGED shaData
    /\ UNCHANGED <<hbObj, hbPc, flattened, pending, headerKeys, bodyKeys, hbBuilt, hashing, hbOut>>
    /\ UNCHANGED <<signVars, rateVars, reqVars, itemVars, dispVars, initVars, pairVars>>

InitCache ==
    /\ ShaStart /\ HBIdle /\ SignIdle /\ SIG_CONFIG = Undefined /\ RateIdle /\ ReqIdle
    /\ ItemIdle /\ DispIdle /\ InitIdle /\ PairIdle
NextCache ==
    \/ \E c \in ShaCallers, data \in ShaInputs : CallSha256(c, data)
    \/ \E c \in ShaCallers : Sha256Digested(c)
SpecCache == InitCache /\ [][NextCache]_vars

(* C24: the HashCache is bounded with least-recently-used eviction: after
   any sequence of gets and sets, the sets of concurrent sha256 calls that
   missed on the same data included, it holds at most maxSize entries; a
   get hit moves the entry to most recently used; a set on a full cache
   evicts exactly the entry that was least recently inserted or read. *)
Evicted == KeySet(lastOp.before) \ KeySet(hashCache)
C24_WitnessConcurrent ==
    /\ lastOp # Undefined /\ lastOp.op = "set" /\ Len(lastOp.before) = CacheCap
    /\ lastOp.key \in KeySet(lastOp.before) /\ Len(hashCache) < CacheCap

(* C27: the cached sha256 is a pure function of its input: every call
   returns the digest of the data it was given, whatever calls came before,
   so two different inputs never receive each other's digest, inputs longer
   than 16 bytes that share their length, first 8 and last 8 bytes
   included. *)
C27_PureDigest ==
    \A c \in ShaCallers :
        (shaPc[c] = "idle" /\ shaOut[c] # Pending) =>
            shaOut[c] = Return(DIGEST(shaData[c]))

----------------------------------------------------------------------------
(* toDataItemSigner calls in flight together: each call has its own closure
   (unsignedBytes, createCalled) and its own signer; SIG_CONFIG[1] is the one
   object of the process that createDataItemBytes writes the key into *)

Signings == {1, 2}
NoCall == [ pc |-> "idle", key |-> "", item |-> NoItem, createCalled |-> FALSE,
            createCount |-> 0, unsignedBytes |-> Null, payload |-> Undefined,
            out |-> Pending ]

(* createDataItemBytes: `signerMeta.publicKey = signer.publicKey`, the value
   createData(data, signerMeta, opts) reads next, no await in between *)
signerMetaMutant(config, publicKey) == "k1"
signerMeta(config, publicKey) == publicKey

(* what the signer of a call resolves with: the signature of the payload it
   was given under its own key, 512 or 513 bytes long *)
PairResults(k, pl) ==
    { [EmptyResult EXCEPT !.signature = RawSig(Sign(k, pl), n)] : n \in {sigLength, sigLength + 1} }

(* toDataItemSigner(signer)({data, tags, target, anchor}) up to `await signer` *)
PairCalls(c, k, it) ==
    /\ calls[c].pc = "idle"
    /\ calls' = [calls EXCEPT ![c] = [NoCall EXCEPT !.pc = "signer", !.key = k, !.item = it]]
    /\ UNCHANGED SIG_CONFIG

(* the signer of call c invokes create(injected) with its own public key *)
PairCreated(c, made) ==
    calls' = [calls EXCEPT ![c].createCalled = TRUE,
                           ![c].createCount = @ + 1,
                           ![c].unsignedBytes = IF made.changed THEN made.unsignedBytes ELSE @,
                           ![c].payload = made.returned]
PairCreates(c, passthrough) ==
    /\ calls[c].pc = "signer" /\ calls[c].createCount < MaxCreate
    /\ SIG_CONFIG' = IF passthrough THEN SIG_CONFIG
                     ELSE signerMeta(SIG_CONFIG, calls[c].key)
    /\ PairCreated(c, createDataItem(calls[c].item,
                          [publicKey |-> SIG_CONFIG', passthrough |-> passthrough]))

(* the signer of call c resolves; the wrapper runs to its end *)
PairSettled(c, a) ==
    calls' = [calls EXCEPT ![c].pc = "done", ![c].out = a.out, ![c].unsignedBytes = a.bytes]
PairResolves(c, r) ==
    /\ calls[c].pc = "signer"
    /\ PairSettled(c, toDataItemSignerAfter(calls[c].createCalled, calls[c].unsignedBytes, r))
    /\ UNCHANGED SIG_CONFIG

(* the caller has the outcome; the closure of the call is gone *)
PairEnds(c) ==
    /\ calls[c].pc = "done"
    /\ calls' = [calls EXCEPT ![c] = NoCall]
    /\ UNCHANGED SIG_CONFIG

InitPair ==
    /\ calls = [c \in Signings |-> NoCall]
    /\ SignIdle /\ SIG_CONFIG = Undefined /\ RateIdle /\ HBIdle /\ ReqIdle /\ ItemIdle
    /\ DispIdle /\ InitIdle /\ ShaIdle
NextPair ==
    /\ \/ \E c \in Signings, k \in Keys, it \in Items : PairCalls(c, k, it)
       \/ \E c \in Signings, passthrough \in BOOLEAN : PairCreates(c, passthrough)
       \/ \E c \in Signings : \E r \in PairResults(calls[c].key, calls[c].payload) :
             PairResolves(c, r)
       \/ \E c \in Signings : PairEnds(c)
    /\ UNCHANGED <<wrapper, pc, item, sigInput, sigArgs, createCalled, createCount,
                   unsignedBytes, httpSig, payload, res, isValid, out>>
    /\ UNCHANGED <<rateVars, hbVars, reqVars, itemVars, dispVars, initVars, shaVars>>
SpecPair == InitPair /\ [][NextPair]_vars

(* C29: signing calls do not interfere through shared state: of data-item
   signing calls in flight together for signers with different keys (or
   with the same one) each carries its own owner key, its own spliced
   buffer and its own create-invoked flag, although createDataItemBytes
   writes the public key into the process-wide SIG_CONFIG. *)
OwnBytes(call) ==
    createDataItemBytes(call.item.data, [type |-> 1, publicKey |-> call.key],
        [target |-> call.item.target, tags |-> call.item.tags, anchor |-> call.item.anchor])
OwnSignature(call) == RawSig(Sign(call.key, getSignatureData(OwnBytes(call))), sigLength)
C29_OwnState ==
    \A c \in Signings :
        /\ calls[c].createCalled <=> calls[c].createCount > 0
        /\ (calls[c].pc = "signer" /\ calls[c].unsignedBytes # Null) =>
              calls[c].unsignedBytes = OwnBytes(calls[c])
        /\ (calls[c].pc = "done" /\ calls[c].out.kind = "return") =>
              calls[c].out.value.raw = Splice(OwnBytes(calls[c]), OwnSignature(calls[c]))
C29_Witness ==
    \E c, d \in Signings :
        /\ calls[c].key # calls[d].key /\ calls[c].key # "" /\ calls[d].key # ""
        /\ calls[c].item # calls[d].item
        /\ calls[d].pc = "signer" /\ calls[d].unsignedBytes # Null
        /\ SIG_CONFIG = calls[d].key
        /\ calls[c].pc = "done" /\ calls[c].out.kind = "return"
        /\ calls[c].out.value.raw.owner = calls[c].key

====
